---- MODULE Spec2Model ----
(***************************************************************************)
(* Model of the evidence-based specification extractor of                  *)
(* solar-specs-showdown: UnitConverter, SpecExtractor, the field selection *)
(* of ScraperAPIParser.parse_product_data (scripts/scraper.py), the       *)
(* reparse reconciler (scripts/reparse_raw_scraper_data.py), the staging   *)
(* queue (scripts/asin_manager.py), the ingest runs                        *)
(* (scripts/ingest_staged_asins.py), the price updates                     *)
(* (scripts/update_prices.py) and the retry handler with its circuit       *)
(* breaker (scripts/error_handling.py).                                    *)
(*                                                                         *)
(* Numbers.  Python floats are modelled by scaled integers:                *)
(*   - numbers read from text are in tenths (one decimal digit),           *)
(*   - centimetres, kilograms and volts of results are in hundredths       *)
(*     (the code rounds them to two decimals),                             *)
(*   - confidences are in hundredths (0.99 is 99, 1.0 is 100).             *)
(* Python's None is the integer None (-1) for scalars and the empty tuple  *)
(* NoDims for a dimension pair; no parsed quantity is ever negative.       *)
(***************************************************************************)
EXTENDS Integers, Sequences, FiniteSets, TLC

VARIABLES
    pc,             \* "call" before the operation under study has run, "return" after
    power_string,   \* argument of parse_power_string
    power_result,   \* its return value
    dim_string,     \* argument of parse_dimension_string
    dim_result,     \* its return value
    api_response,   \* the raw listing handed to parse_product_data
    panel_data,     \* the record it returns (NoRecord for None)
    extracted,      \* the candidate lists the call built on the way
    args,           \* run_reparse: the command-line switches
    rows,           \* the raw_scraper_data rows fetched, in order
    row_index,      \* position of the loop over rows
    solar_panels,   \* table solar_panels: panel id -> stored row
    user_flags,     \* table user_flags
    update_data,    \* the update map staged for the row processed last
    override_mismatches,    \* the mismatch reports of the row processed last
    outcome,        \* how the loop body left the row processed last
    summary,        \* the counters run_reparse returns
    asin_staging,   \* table asin_staging: ASIN -> row of the staging queue
    panel_asins,    \* the ASINs that have a row in table solar_panels
    raw_scraper_data,   \* table raw_scraper_data: ASIN -> its row of the last 24 hours
    ingest,         \* ingest process -> position, batch and loop index of its main
    run_args,       \* ingest process -> its command-line switches
    api_calls,      \* ingest process -> the ASINs it requested from the scraper
    inserted,       \* ingest process -> the ASINs it added to solar_panels
    forbidden,      \* <<process, ASIN>> of the requests answered 403 Forbidden
    permanent_failures, \* the ASINs mark_asin_failed(is_permanent=True) has failed
    last_call,      \* the ASINManager operation called last, with its arguments
    calls,          \* the number of direct ASINManager calls made
    price_panel,    \* update_prices: the panel dict handed to the update
    price_row,      \* its row in solar_panels (price_usd, updated_at)
    price_history,  \* table price_history
    price_fetch,    \* what the fetch or the search map gives for the panel
    price_result,   \* the dict the update returns
    db_calls,       \* the calls the update made on db
    stage_rows,     \* stage_asin: the rows of table asin_staging, in insertion order
    stage_panels,   \* the ASINs that have a row in solar_panels when stage_asin runs
    stage_last,     \* the stage_asin call made last and what it returned
    circuit_breaker,    \* the CircuitBreaker of the service called
    now,            \* time.time(), in seconds
    config,         \* the RetryConfig of the RetryHandler
    retry,          \* execute_with_retry: position, loop index and outcome of the call
    retry_calls     \* the number of execute_with_retry calls begun

vars == <<pc, power_string, power_result, dim_string, dim_result,
          api_response, panel_data, extracted, args, rows, row_index,
          solar_panels, user_flags, update_data, override_mismatches, outcome,
          summary, asin_staging, panel_asins, raw_scraper_data, ingest, run_args,
          api_calls, inserted, forbidden, permanent_failures, last_call, calls,
          price_panel, price_row, price_history, price_fetch, price_result, db_calls,
          stage_rows, stage_panels, stage_last, circuit_breaker, now, config, retry,
          retry_calls>>

powerVars == <<power_string, power_result>>
dimVars == <<dim_string, dim_result>>
parseVars == <<api_response, panel_data, extracted>>
reparseVars == <<args, rows, row_index, solar_panels, user_flags, update_data,
                 override_mismatches, outcome, summary>>
managerCallVars == <<last_call, calls>>
ingestRunVars == <<panel_asins, raw_scraper_data, ingest, run_args, api_calls, inserted,
                   forbidden>>
ingestVars == <<asin_staging, permanent_failures, ingestRunVars, managerCallVars>>
priceVars == <<price_panel, price_row, price_history, price_fetch, price_result, db_calls>>
stageVars == <<stage_rows, stage_panels, stage_last>>
retryVars == <<circuit_breaker, now, config, retry, retry_calls>>

None == -1
NoDims == << >>

Abs(x) == IF x < 0 THEN -x ELSE x
Min2(a, b) == IF a <= b THEN a ELSE b
Max2(a, b) == IF a >= b THEN a ELSE b

(***************************************************************************)
(* UnitConverter.parse_power_string                                        *)
(*                                                                         *)
(* A power string is abstracted to what the code reads from it: whether    *)
(* one of the two numeric patterns matches, the matched number in tenths   *)
(* (the patterns accept a leading minus sign) and whether the text         *)
(* contains "kw" or "kilowatt".                                            *)
(***************************************************************************)
MaxNegTenths == 12
MaxSmallTenths == 26
EdgeSpanTenths == 30
MAX_WATTS == 2000

PowerTenths ==
    ((0 - MaxNegTenths) .. MaxSmallTenths)
        \cup ((MAX_WATTS * 10 - EdgeSpanTenths) .. (MAX_WATTS * 10 + EdgeSpanTenths))
        \cup {0 - 1000, 0 - 8000, 1000, 30000}

PowerStrings ==
    [has_number : {TRUE}, tenths : PowerTenths, kw : BOOLEAN]
        \cup [has_number : {FALSE}, tenths : {0}, kw : BOOLEAN]

NoPowerString == [has_number |-> FALSE, tenths |-> 0, kw |-> FALSE]

\* numeric_value after the kW multiplier, in tenths of a watt
numeric_value(s) == IF s.kw THEN s.tenths * 1000 ELSE s.tenths

\* int(v + 0.5) if v >= 0 else int(v - 0.5): int() truncates toward zero
int_round(v10) ==
    IF v10 >= 0 THEN (v10 + 5) \div 10 ELSE 0 - ((5 - v10) \div 10)

parse_power_string(s) ==
    IF ~s.has_number THEN None
    ELSE LET result == int_round(numeric_value(s))
         IN  IF result < 0 \/ result > MAX_WATTS THEN None ELSE result

PowerIdle ==
    /\ power_string = NoPowerString
    /\ power_result = None

ParsePowerString ==
    /\ pc = "call"
    /\ power_result' = parse_power_string(power_string)
    /\ pc' = "return"
    /\ UNCHANGED <<power_string, dimVars, parseVars, reparseVars, ingestVars, priceVars, stageVars,
                   retryVars>>

(***************************************************************************)
(* UnitConverter.parse_dimension_string                                    *)
(*                                                                         *)
(* A dimension string is abstracted to the matches of the code's regular   *)
(* expressions:                                                            *)
(*   labeled : the (value, unit) pairs found by the two labelled patterns  *)
(*             (L/W/H, Length/Width/Height), in match order;               *)
(*   nums    : the bare numbers joined by "x", in text order (tenths);     *)
(*   unit    : the unit word that follows the last bare number, or "none". *)
(* Units are already normalised as normalize_unit does: "in", "cm", "mm",  *)
(* "m"; the unit "in" stands for a text spelling it as inch, inches or ".  *)
(***************************************************************************)
Units == {"in", "cm", "mm", "m"}
NoUnit == "none"
INCH_GUESS_MAX == 20

\* Decimal(inches) * 2.54 quantized to 0.01 ROUND_HALF_UP; tenths -> hundredths
inches_to_cm(tenths) == (tenths * 254 + 5) \div 10

to_cm(tenths, unit) ==
    IF unit = "in" THEN inches_to_cm(tenths)
    ELSE IF unit = "mm" THEN tenths
    ELSE IF unit = "m" THEN tenths * 1000
    ELSE tenths * 10

SeqMax(s) == CHOOSE v \in {s[i] : i \in DOMAIN s} : \A j \in DOMAIN s : s[j] <= v

guess_unit_from_values(values) ==
    IF Len(values) = 0 THEN NoUnit
    ELSE IF SeqMax(values) <= INCH_GUESS_MAX * 10 THEN "in" ELSE "cm"

\* order of the tests in guess_unit_from_text: inch, mm, cm, m
guess_unit_from_text(units) ==
    IF "in" \in units THEN "in"
    ELSE IF "mm" \in units THEN "mm"
    ELSE IF "cm" \in units THEN "cm"
    ELSE IF "m" \in units THEN "m"
    ELSE NoUnit

RemoveAt(s, i) == SubSeq(s, 1, i - 1) \o SubSeq(s, i + 1, Len(s))

FirstIndexOf(s, v) == CHOOSE i \in DOMAIN s : s[i] = v /\ \A j \in 1 .. (i - 1) : s[j] # v

IsPositive(v) == v > 0

select_length_width_unsorted(values_cm) ==
    LET cleaned == SelectSeq(values_cm, IsPositive)
    IN  IF Len(cleaned) < 2 THEN NoDims
        ELSE <<cleaned[1], cleaned[2]>>

\* cleaned.sort(reverse=True); return (cleaned[0], cleaned[1])
select_length_width(values_cm) ==
    LET cleaned == SelectSeq(values_cm, IsPositive)
    IN  IF Len(cleaned) < 2 THEN NoDims
        ELSE LET first == SeqMax(cleaned)
                 rest == RemoveAt(cleaned, FirstIndexOf(cleaned, first))
             IN  <<first, SeqMax(rest)>>

ConvertAll(values, unit) == [i \in DOMAIN values |-> to_cm(values[i], unit)]

LastN(s, n) == SubSeq(s, Len(s) - n + 1, Len(s))

parse_dimension_string(d) ==
    LET \* Pattern A/B: labelled dimensions
        labeled_units == {d.labeled[i].unit : i \in DOMAIN d.labeled} \cup {d.unit}
        values_only == [i \in DOMAIN d.labeled |-> d.labeled[i].value]
        text_unit == guess_unit_from_text(labeled_units)
        fallback_unit == IF text_unit # NoUnit THEN text_unit
                         ELSE guess_unit_from_values(values_only)
        from_labeled ==
            IF Len(d.labeled) >= 2
            THEN select_length_width(
                    [i \in DOMAIN d.labeled |->
                        to_cm(d.labeled[i].value,
                              IF d.labeled[i].unit # NoUnit
                              THEN d.labeled[i].unit ELSE fallback_unit)])
            ELSE NoDims
        \* Pattern C: three numbers then a unit (the unit anchors the match)
        from_three ==
            IF Len(d.nums) >= 3 /\ d.unit # NoUnit
            THEN select_length_width(ConvertAll(LastN(d.nums, 3), d.unit))
            ELSE NoDims
        \* Pattern D: three numbers, unit guessed from the values (leftmost match)
        first_three == SubSeq(d.nums, 1, 3)
        from_numbers ==
            IF Len(d.nums) >= 3
            THEN select_length_width(
                    ConvertAll(first_three, guess_unit_from_values(first_three)))
            ELSE NoDims
        \* Pattern E: two numbers then a unit
        from_two ==
            IF Len(d.nums) >= 2 /\ d.unit # NoUnit
            THEN select_length_width(ConvertAll(LastN(d.nums, 2), d.unit))
            ELSE NoDims
    IN  IF from_labeled # NoDims THEN from_labeled
        ELSE IF from_three # NoDims THEN from_three
        ELSE IF from_numbers # NoDims THEN from_numbers
        ELSE from_two

MaxDimSmall == 2
DimValues == (0 .. MaxDimSmall) \cup {150, 200, 201, 339, 430}

FewDimValues == (0 .. MaxDimSmall) \cup {150}

BareDimStrings ==
    [labeled : {<< >>},
     nums : {<<a>> : a \in DimValues}
              \cup {<<a, b>> : a \in DimValues, b \in DimValues}
              \cup {<<a, b, c>> : a \in DimValues, b \in DimValues, c \in DimValues}
              \cup {<<a, b, c, e>> : a \in FewDimValues, b \in FewDimValues,
                                      c \in FewDimValues, e \in FewDimValues},
     unit : Units \cup {NoUnit}]

LabeledValues == [value : {0, 150, 430}, unit : {"in", "cm", NoUnit}]

LabeledDimStrings ==
    [labeled : {<<a, b>> : a \in LabeledValues, b \in LabeledValues},
     nums : {<< >>},
     unit : {NoUnit}]

DimStrings == BareDimStrings \cup LabeledDimStrings

NoDimString == [labeled |-> << >>, nums |-> << >>, unit |-> NoUnit]

DimIdle ==
    /\ dim_string = NoDimString
    /\ dim_result = NoDims

ParseDimensionString ==
    /\ pc = "call"
    /\ dim_result' = parse_dimension_string(dim_string)
    /\ pc' = "return"
    /\ UNCHANGED <<dim_string, powerVars, parseVars, reparseVars, ingestVars, priceVars, stageVars,
                   retryVars>>

(***************************************************************************)
(* ExtractionCandidate and the class-level confidence tables of            *)
(* SpecExtractor.                                                          *)
(*                                                                         *)
(* A candidate is [value, confidence, source, piece_count, pattern]:       *)
(* meta.piece_count is 0 when the key is absent from meta, and pattern is  *)
(* meta.pattern ("" when absent).  A source name is kept in parts,         *)
(*   [math, base, key, piece]  for  "math_confirmed." base "." key         *)
(*                                   ".piece_count",                       *)
(* and SourceRank gives the position of the name in Python's string order. *)
(***************************************************************************)
Cand(value, confidence, source, piece_count, pattern) ==
    [value |-> value, confidence |-> confidence, source |-> source,
     piece_count |-> piece_count, pattern |-> pattern]

Src(base, key) == [math |-> FALSE, base |-> base, key |-> key, piece |-> FALSE]

\* the entries of each table in dictionary order: <<pattern, confidence>>
WATTAGE_KEYS ==
    << <<"maximum power", 90>>, <<"maximum power output", 90>>, <<"rated power", 85>>,
       <<"wattage", 85>>, <<"output power", 80>>, <<"power", 70>> >>

DIMENSION_KEYS ==
    << <<"product dimensions", 90>>, <<"item dimensions", 85>>,
       <<"item dimensions l x w x h", 85>>, <<"package dimensions", 60>>,
       <<"dimensions", 70>> >>

WEIGHT_KEYS ==
    << <<"item weight", 90>>, <<"weight", 70>>, <<"package weight", 60>> >>

PIECE_KEYS ==
    << <<"item package quantity", 90>>, <<"number of pieces", 90>>,
       <<"number of items", 85>>, <<"piece count", 85>>, <<"pieces", 70>>,
       <<"pack", 60>>, <<"package quantity", 75>> >>

VOLTAGE_KEYS ==
    << <<"output voltage", 90>>, <<"operating voltage", 85>>, <<"rated voltage", 85>>,
       <<"maximum voltage", 80>>, <<"max voltage", 80>>, <<"voltage", 70>> >>

\* The spec-table keys of the model and, for each, the table patterns that
\* are substrings of the lower-cased key ("pattern in key_lower").
PI_KEYS ==
    {"Maximum Power", "Rated Power", "Product Dimensions", "Package Dimensions",
     "Item Weight", "Package Weight", "Item Package Quantity", "Output Voltage",
     "Voltage", "Weight"}

KeySubstrings(key) ==
    CASE key = "Maximum Power" -> {"maximum power", "power"}
      [] key = "Rated Power" -> {"rated power", "power"}
      [] key = "Product Dimensions" -> {"product dimensions", "dimensions"}
      [] key = "Package Dimensions" -> {"package dimensions", "dimensions", "pack"}
      [] key = "Item Weight" -> {"item weight", "weight"}
      [] key = "Package Weight" -> {"package weight", "weight", "pack"}
      [] key = "Item Package Quantity" ->
            {"item package quantity", "package quantity", "pack"}
      [] key = "Output Voltage" -> {"output voltage", "voltage"}
      [] key = "Voltage" -> {"voltage"}
      [] key = "Weight" -> {"weight"}
      [] OTHER -> {}

\* position of a key among the keys of the model in Python's string order
KeyRank(key) ==
    CASE key = "" -> 0
      [] key = "Item Package Quantity" -> 1
      [] key = "Item Weight" -> 2
      [] key = "Maximum Power" -> 3
      [] key = "Output Voltage" -> 4
      [] key = "Package Dimensions" -> 5
      [] key = "Package Weight" -> 6
      [] key = "Product Dimensions" -> 7
      [] key = "Rated Power" -> 8
      [] key = "Voltage" -> 9
      [] key = "Weight" -> 10
      [] OTHER -> 11

BaseRank(base) ==
    CASE base = "description" -> 1
      [] base = "feature_bullets" -> 2
      [] base = "product_information" -> 4
      [] base = "title" -> 5
      [] OTHER -> 6

\* "math_confirmed." sorts between "feature_bullets" and "product_information"
SourceRank(source) ==
    LET plain == BaseRank(source.base) * 1000 + KeyRank(source.key) * 10
                    + (IF source.piece THEN 1 ELSE 0)
    IN  IF source.math THEN 3000000 + plain ELSE plain * 1000

\* _find_product_info: for each spec-table entry with a non-empty value, the
\* first pattern of the table (in table order) contained in the key
FirstPattern(table, key) ==
    LET hits == {i \in DOMAIN table : table[i][1] \in KeySubstrings(key)}
    IN  IF hits = {} THEN 0 ELSE CHOOSE i \in hits : \A j \in hits : i <= j

RECURSIVE find_product_info(_, _)
find_product_info(product_info, table) ==
    IF product_info = << >> THEN << >>
    ELSE LET entry == Head(product_info)
             i == FirstPattern(table, entry.key)
             rest == find_product_info(Tail(product_info), table)
         IN  IF entry.value.empty \/ i = 0 THEN rest
             ELSE <<[key |-> entry.key, value |-> entry.value,
                     confidence |-> table[i][2]]>> \o rest

(***************************************************************************)
(* SpecExtractor._boost_consensus and _select_best                         *)
(***************************************************************************)
TOLERANCE == 1          \* 0.01, in hundredths
CONSENSUS_CAP == 99
CONSENSUS_STEP == 5
CONSENSUS_MAX_BONUS == 15

\* the three isinstance branches: tuples componentwise, numbers, else ==
AgreeTuple(ref, value) ==
    Abs(ref[1] - value[1]) <= TOLERANCE /\ Abs(ref[2] - value[2]) <= TOLERANCE

\* integers (wattage, piece_count) are in units: 0.01 means equality
AgreeInt(ref, value) == ref = value

\* floats rounded to two decimals (kg, volts), in hundredths
AgreeFloat(ref, value) == Abs(ref - value) <= TOLERANCE

\* which isinstance branch compares the values of a field's candidates
Agree(kind, ref, value) ==
    CASE kind = "tuple" -> AgreeTuple(ref, value)
      [] kind = "int" -> AgreeInt(ref, value)
      [] kind = "float" -> AgreeFloat(ref, value)

\* GroupRefs(c, kind, n): the indices of the candidates that opened a group
\* while the first n candidates were placed
RECURSIVE GroupRefs(_, _, _)
GroupRefs(candidates, kind, n) ==
    IF n = 0 THEN {}
    ELSE LET before == GroupRefs(candidates, kind, n - 1)
         IN  IF \E g \in before : Agree(kind, candidates[g].value, candidates[n].value)
             THEN before ELSE before \cup {n}

\* the group a candidate is appended to: the first group whose group[0] agrees
GroupOf(candidates, kind, i) ==
    LET before == GroupRefs(candidates, kind, i - 1)
        agreeing == {g \in before :
                        Agree(kind, candidates[g].value, candidates[i].value)}
    IN  IF agreeing = {} THEN i
        ELSE CHOOSE g \in agreeing : \A h \in agreeing : g <= h

GroupSize(candidates, kind, i) ==
    Cardinality({j \in DOMAIN candidates :
        GroupOf(candidates, kind, j) = GroupOf(candidates, kind, i)})

boosted_confidence(confidence, size) ==
    IF size > 1
    THEN Min2(CONSENSUS_CAP,
              confidence + Min2(CONSENSUS_MAX_BONUS, CONSENSUS_STEP * (size - 1)))
    ELSE confidence

boost_consensus(candidates, kind) ==
    [i \in DOMAIN candidates |->
        [candidates[i] EXCEPT !.confidence =
            boosted_confidence(candidates[i].confidence,
                               GroupSize(candidates, kind, i))]]

SortsBefore_by_source(a, b) == SourceRank(a.source) < SourceRank(b.source)

\* sorted(candidates, key=lambda c: (-c.confidence, c.source)); the sort is stable
SortsBefore(a, b) ==
    \/ a.confidence > b.confidence
    \/ a.confidence = b.confidence /\ SourceRank(a.source) < SourceRank(b.source)

SortRank(candidates, i) ==
    1 + Cardinality({j \in DOMAIN candidates :
            \/ SortsBefore(candidates[j], candidates[i])
            \/ ~SortsBefore(candidates[i], candidates[j]) /\ j < i})

sorted_candidates(candidates) ==
    [k \in DOMAIN candidates |->
        candidates[CHOOSE i \in DOMAIN candidates : SortRank(candidates, i) = k]]

NoCandidate == 0

(***************************************************************************)
(* SpecExtractor._add_wattage_candidates_from_text and extract_wattage     *)
(*                                                                         *)
(* A text is abstracted to the matches the extractor's regular expressions *)
(* find in it.  Its wattage view is the sequence, in text order, of its    *)
(* wattage mentions:                                                       *)
(*   pattern  : "count_x_wattage" (2 x 100W), "wattage_x_count" (100W x2), *)
(*              "count_pcs_wattage" (2PCS 100W) or "simple" (100W, 1.5kW); *)
(*   count    : the matched count (0 for a simple mention);                *)
(*   tenths   : the matched number of watts, in tenths;                    *)
(*   kw       : the unit is kW (simple pattern only: the others need w);   *)
(*   noise    : a WATTAGE_NOISE_PATTERNS term lies in the 30-character     *)
(*              window around the match;                                   *)
(*   boundary : a word boundary follows the W, so that the simple pattern  *)
(*              also matches the wattage inside the mention ("100W x2"     *)
(*              has one, "100Wx2" has none).                               *)
(***************************************************************************)
MULTI_BONUS == 10
FEATURE_WATTAGE_CONF == 75
TITLE_WATTAGE_CONF == 60
DESCRIPTION_WATTAGE_CONF == 45

MultiPatterns == <<"count_x_wattage", "wattage_x_count", "count_pcs_wattage">>

FirstMention(text, pattern) ==
    LET hits == {i \in DOMAIN text : text[i].pattern = pattern}
    IN  IF hits = {} THEN 0 ELSE CHOOSE i \in hits : \A j \in hits : i <= j

\* the number group of a multi pattern: digits with an optional fraction, no unit
GroupWatts(m) == parse_power_string([has_number |-> TRUE, tenths |-> m.tenths, kw |-> FALSE])

\* match.group(0) of the simple pattern: the number and its unit
SimpleWatts(m) ==
    parse_power_string([has_number |-> TRUE, tenths |-> m.tenths,
                        kw |-> (m.pattern = "simple" /\ m.kw)])

\* "if watts:" is false for None and for 0
Truthy(n) == n # None /\ n # 0

\* the simple pattern matches a simple mention, and the wattage inside a
\* multi mention when a word boundary follows its W
SimpleMatches(m) ==
    m.pattern \in {"simple", "count_x_wattage", "count_pcs_wattage"} \/ m.boundary

RECURSIVE simple_candidates(_, _, _)
simple_candidates(text, source, base_confidence) ==
    IF text = << >> THEN << >>
    ELSE LET m == Head(text)
             rest == simple_candidates(Tail(text), source, base_confidence)
         IN  IF SimpleMatches(m) /\ ~m.noise /\ Truthy(SimpleWatts(m))
             THEN <<Cand(SimpleWatts(m), base_confidence, source, 0, "")>> \o rest
             ELSE rest

\* the three re.search blocks in order, then the finditer loop; a noise term
\* around the first match of a multi pattern returns what was collected so far
RECURSIVE multi_candidates(_, _, _, _)
multi_candidates(text, source, base_confidence, k) ==
    IF k > Len(MultiPatterns)
    THEN simple_candidates(text, source, base_confidence)
    ELSE LET i == FirstMention(text, MultiPatterns[k])
         IN  IF i = 0 THEN multi_candidates(text, source, base_confidence, k + 1)
             ELSE IF text[i].noise THEN << >>
             ELSE (IF Truthy(GroupWatts(text[i]))
                   THEN <<Cand(GroupWatts(text[i]), base_confidence + MULTI_BONUS,
                               source, text[i].count, MultiPatterns[k])>>
                   ELSE << >>)
                  \o multi_candidates(text, source, base_confidence, k + 1)

add_wattage_candidates_from_text(text, source, base_confidence) ==
    multi_candidates(text, source, base_confidence, 1)

RECURSIVE FlatMapWattage(_, _)
FlatMapWattage(matches, base) ==
    IF matches = << >> THEN << >>
    ELSE add_wattage_candidates_from_text(
            Head(matches).value.watt, Src(base, Head(matches).key),
            Head(matches).confidence)
         \o FlatMapWattage(Tail(matches), base)

RECURSIVE FeatureWattage(_)
FeatureWattage(features) ==
    IF features = << >> THEN << >>
    ELSE add_wattage_candidates_from_text(
            Head(features).watt, Src("feature_bullets", ""), FEATURE_WATTAGE_CONF)
         \o FeatureWattage(Tail(features))

\* the candidates of extract_wattage before its final _boost_consensus
wattage_before_boost(r) ==
    FlatMapWattage(find_product_info(r.product_information, WATTAGE_KEYS),
                   "product_information")
    \o FeatureWattage(r.feature_bullets)
    \o add_wattage_candidates_from_text(r.title.watt, Src("title", ""), TITLE_WATTAGE_CONF)
    \o add_wattage_candidates_from_text(r.description.watt, Src("description", ""),
                                        DESCRIPTION_WATTAGE_CONF)

extract_wattage(r) == boost_consensus(wattage_before_boost(r), "int")

(***************************************************************************)
(* UnitConverter.parse_weight_string, extract_dimensions, extract_weight   *)
(*                                                                         *)
(* The other views of a text:                                              *)
(*   dims   : its dimension-string abstraction (see parse_dimension_string);*)
(*   weight : [has_number, tenths, unit]: the first number of the text,    *)
(*            and the branch its unit test takes ("kg", "g", "oz", "lb" or *)
(*            "none");                                                     *)
(*   int    : the first run of digits as an integer, None when there is    *)
(*            no digit;                                                    *)
(*   nums   : every number of the text, in text order (tenths);            *)
(*   pack   : [suffix, prefix]: the count of the first "<n> pack" match    *)
(*            and of the first "pack of <n>" match, None when no match.    *)
(* The views vary independently in the model.                              *)
(***************************************************************************)
RoundHalfUpDiv(n, d) == (2 * n + d) \div (2 * d)

\* Decimal(pounds) * 0.453592 quantized to 0.01 ROUND_HALF_UP; tenths -> hundredths
pounds_to_kg(tenths) == RoundHalfUpDiv(tenths * 453592, 100000)

\* kilograms in hundredths; None when the text has no number
parse_weight_string(w) ==
    IF ~w.has_number THEN None
    ELSE IF w.unit = "kg" THEN w.tenths * 10
    ELSE IF w.unit = "g" THEN RoundHalfUpDiv(w.tenths, 100)
    ELSE IF w.unit = "oz" THEN RoundHalfUpDiv(w.tenths * 283495, 1000000)
    ELSE pounds_to_kg(w.tenths)

TITLE_DIMENSION_CONF == 45
DESCRIPTION_DIMENSION_CONF == 35

RECURSIVE DimensionsFromInfo(_)
DimensionsFromInfo(matches) ==
    IF matches = << >> THEN << >>
    ELSE LET dims == parse_dimension_string(Head(matches).value.dims)
             rest == DimensionsFromInfo(Tail(matches))
         IN  IF dims # NoDims
             THEN <<Cand(dims, Head(matches).confidence,
                         Src("product_information", Head(matches).key), 0, "")>> \o rest
             ELSE rest

DimensionsFromText(text, source, confidence) ==
    LET dims == parse_dimension_string(text.dims)
    IN  IF text.empty \/ dims = NoDims THEN << >>
        ELSE <<Cand(dims, confidence, Src(source, ""), 0, "")>>

dimensions_before_boost(r) ==
    DimensionsFromInfo(find_product_info(r.product_information, DIMENSION_KEYS))
    \o DimensionsFromText(r.title, "title", TITLE_DIMENSION_CONF)
    \o DimensionsFromText(r.description, "description", DESCRIPTION_DIMENSION_CONF)

extract_dimensions(r) == boost_consensus(dimensions_before_boost(r), "tuple")

RECURSIVE WeightFromInfo(_)
WeightFromInfo(matches) ==
    IF matches = << >> THEN << >>
    ELSE LET weight == parse_weight_string(Head(matches).value.weight)
             rest == WeightFromInfo(Tail(matches))
         IN  IF Truthy(weight)
             THEN <<Cand(weight, Head(matches).confidence,
                         Src("product_information", Head(matches).key), 0, "")>> \o rest
             ELSE rest

weight_before_boost(r) ==
    WeightFromInfo(find_product_info(r.product_information, WEIGHT_KEYS))

extract_weight(r) == boost_consensus(weight_before_boost(r), "float")

(***************************************************************************)
(* SpecExtractor.extract_piece_count and build_math_confirmed_piece_count  *)
(***************************************************************************)
MULTIPLIER_BONUS == 10
MULTIPLIER_CAP == 95
TITLE_PACK_CONF == 55
FEATURE_PACK_CONF == 50
MATH_BONUS == 20
MATH_CAP == 99
MATH_TOLERANCE == 1     \* watts

RECURSIVE PiecesFromInfo(_)
PiecesFromInfo(matches) ==
    IF matches = << >> THEN << >>
    ELSE LET rest == PiecesFromInfo(Tail(matches))
         IN  IF Head(matches).value.int # None
             THEN <<Cand(Head(matches).value.int, Head(matches).confidence,
                         Src("product_information", Head(matches).key), 0, "")>> \o rest
             ELSE rest

RECURSIVE PiecesFromWattage(_)
PiecesFromWattage(wattage_candidates) ==
    IF wattage_candidates = << >> THEN << >>
    ELSE LET c == Head(wattage_candidates)
             rest == PiecesFromWattage(Tail(wattage_candidates))
         IN  IF c.piece_count # 0
             THEN <<Cand(c.piece_count,
                         Min2(MULTIPLIER_CAP, c.confidence + MULTIPLIER_BONUS),
                         [c.source EXCEPT !.piece = TRUE], 0, "")>> \o rest
             ELSE rest

\* the two pack_patterns, each searched once in the text
PiecesFromPack(pack, empty, source, confidence) ==
    IF empty THEN << >>
    ELSE (IF pack.suffix # None
          THEN <<Cand(pack.suffix, confidence, Src(source, ""), 0, "")>> ELSE << >>)
         \o (IF pack.prefix # None
             THEN <<Cand(pack.prefix, confidence, Src(source, ""), 0, "")>> ELSE << >>)

\* re.search over ' '.join(self.features): the first feature with a match
RECURSIVE FirstPack(_, _)
FirstPack(features, field) ==
    IF features = << >> THEN None
    ELSE IF Head(features).pack[field] # None THEN Head(features).pack[field]
    ELSE FirstPack(Tail(features), field)

JoinedPack(features) ==
    [suffix |-> FirstPack(features, "suffix"), prefix |-> FirstPack(features, "prefix")]

piece_count_before_boost(r, wattage_candidates) ==
    PiecesFromInfo(find_product_info(r.product_information, PIECE_KEYS))
    \o PiecesFromWattage(wattage_candidates)
    \o PiecesFromPack(r.title.pack, r.title.empty, "title", TITLE_PACK_CONF)
    \o PiecesFromPack(JoinedPack(r.feature_bullets), r.feature_bullets = << >>,
                      "feature_bullets", FEATURE_PACK_CONF)

extract_piece_count(r, wattage_candidates) ==
    boost_consensus(piece_count_before_boost(r, wattage_candidates), "int")

\* the (per_panel, total) index pairs that pass every test of the two loops
MathPairs(w) ==
    {p \in (DOMAIN w) \X (DOMAIN w) :
        /\ w[p[1]].piece_count # 0
        /\ p[2] # p[1]
        /\ w[p[2]].source.base = w[p[1]].source.base
        /\ Abs(w[p[2]].value - w[p[1]].piece_count * w[p[1]].value) <= MATH_TOLERANCE}

math_confidence(per_panel, total) ==
    Min2(MATH_CAP, Max2(per_panel.confidence, total.confidence) + MATH_BONUS)

\* loop order: per_panel outer, total inner
PairBefore(p, q) == p[1] < q[1] \/ (p[1] = q[1] /\ p[2] < q[2])

\* confirmed[piece_count] keeps the first pair whose confidence no pair exceeds
MathWinner(w, count) ==
    LET pairs == {p \in MathPairs(w) : w[p[1]].piece_count = count}
        best == {p \in pairs : \A q \in pairs :
                    math_confidence(w[q[1]], w[q[2]]) <= math_confidence(w[p[1]], w[p[2]])}
    IN  CHOOSE p \in best : \A q \in best : p = q \/ PairBefore(p, q)

MathFirstPair(w, count) ==
    LET pairs == {p \in MathPairs(w) : w[p[1]].piece_count = count}
    IN  CHOOSE p \in pairs : \A q \in pairs : p = q \/ PairBefore(p, q)

\* list(confirmed.values()): keys in order of first insertion
build_math_confirmed_piece_count(w) ==
    LET counts == {w[p[1]].piece_count : p \in MathPairs(w)}
        Position(count) ==
            1 + Cardinality({d \in counts :
                    PairBefore(MathFirstPair(w, d), MathFirstPair(w, count))})
    IN  [k \in 1 .. Cardinality(counts) |->
            LET count == CHOOSE c \in counts : Position(c) = k
                p == MathWinner(w, count)
            IN  [candidate |-> Cand(count, math_confidence(w[p[1]], w[p[2]]),
                                    [w[p[1]].source EXCEPT !.math = TRUE],
                                    0, "count_x_wattage_math"),
                 per_panel |-> p[1],
                 total |-> p[2]]]

\* the candidates alone, as the caller receives them
MathCandidates(confirmed) == [k \in DOMAIN confirmed |-> confirmed[k].candidate]

(***************************************************************************)
(* SpecExtractor.extract_voltage                                           *)
(***************************************************************************)
TYPICAL_VOLTAGES == {6, 12, 18, 24, 36, 48, 60}
TYPICAL_BONUS == 85
REASONABLE_BONUS == 70
SYSTEM_BONUS == 40
VOLTAGE_OFFSET == 50
VOLTAGE_INFO_CAP == 99
VOLTAGE_TEXT_CAP == 90
TITLE_VOLTAGE_CONF == 50
FEATURE_VOLTAGE_CONF == 45
MIN_VOLTAGE == 1
MAX_VOLTAGE == 200

\* Python's round(v): to the nearest integer, a tie to the even one
round_half_even(tenths) ==
    LET q == tenths \div 10
        r == tenths % 10
    IN  IF r < 5 THEN q
        ELSE IF r > 5 THEN q + 1
        ELSE IF q % 2 = 0 THEN q ELSE q + 1

SeqMin(s) == CHOOSE v \in {s[i] : i \in DOMAIN s} : \A j \in DOMAIN s : v <= s[j]

\* [value, bonus(, pattern)] of choose_voltage; volts in hundredths
choose_voltage(values) ==
    LET typical == {i \in DOMAIN values : round_half_even(values[i]) \in TYPICAL_VOLTAGES}
        reasonable == {values[i] : i \in {j \in DOMAIN values :
                            MIN_VOLTAGE * 10 <= values[j] /\ values[j] <= MAX_VOLTAGE * 10}}
    IN  IF values = << >> THEN [value |-> None, bonus |-> 0, pattern |-> ""]
        ELSE IF typical # {}
        THEN [value |-> 10 * values[CHOOSE i \in typical : \A j \in typical : i <= j],
              bonus |-> TYPICAL_BONUS, pattern |-> "typical_voltage"]
        ELSE IF reasonable # {}
        THEN [value |-> 10 * (CHOOSE v \in reasonable : \A u \in reasonable : v <= u),
              bonus |-> REASONABLE_BONUS, pattern |-> "reasonable_voltage"]
        ELSE [value |-> 10 * SeqMin(values), bonus |-> SYSTEM_BONUS,
              pattern |-> "system_voltage"]

RECURSIVE VoltageFromInfo(_)
VoltageFromInfo(matches) ==
    IF matches = << >> THEN << >>
    ELSE LET chosen == choose_voltage(Head(matches).value.nums)
             rest == VoltageFromInfo(Tail(matches))
         IN  IF chosen.value # None
             THEN <<Cand(chosen.value,
                         Min2(VOLTAGE_INFO_CAP,
                              Head(matches).confidence + chosen.bonus - VOLTAGE_OFFSET),
                         Src("product_information", Head(matches).key),
                         0, chosen.pattern)>> \o rest
             ELSE rest

VoltageFromText(nums, empty, source, confidence) ==
    LET chosen == choose_voltage(nums)
    IN  IF empty \/ chosen.value = None THEN << >>
        ELSE <<Cand(chosen.value,
                    Min2(VOLTAGE_TEXT_CAP, confidence + chosen.bonus - VOLTAGE_OFFSET),
                    Src(source, ""), 0, chosen.pattern)>>

RECURSIVE JoinedNums(_)
JoinedNums(features) ==
    IF features = << >> THEN << >>
    ELSE Head(features).nums \o JoinedNums(Tail(features))

voltage_before_boost(r) ==
    VoltageFromInfo(find_product_info(r.product_information, VOLTAGE_KEYS))
    \o VoltageFromText(r.title.nums, r.title.empty, "title", TITLE_VOLTAGE_CONF)
    \o VoltageFromText(JoinedNums(r.feature_bullets), r.feature_bullets = << >>,
                       "feature_bullets", FEATURE_VOLTAGE_CONF)

extract_voltage(r) == boost_consensus(voltage_before_boost(r), "float")

(***************************************************************************)
(* ScraperAPIParser.parse_product_data: validators and select_field        *)
(***************************************************************************)
MAX_DIMENSION_CM == 400
MIN_WEIGHT_TENTHS == 1      \* 0.1 kg
MAX_WEIGHT_KG == 100
MIN_WATTAGE == 5
MIN_PIECES == 1
MAX_PIECES == 50
WATTAGE_THRESHOLD == 60
DIMENSIONS_THRESHOLD == 60
WEIGHT_THRESHOLD == 65
PIECE_COUNT_THRESHOLD == 60
VOLTAGE_THRESHOLD == 55
EVIDENCE_LIMIT == 3

validate_dimensions(value) ==
    /\ value # NoDims
    /\ ~(value[1] <= 0 \/ value[2] <= 0)
    /\ ~(value[1] < value[2])
    /\ ~(value[1] > MAX_DIMENSION_CM * 100 \/ value[2] > MAX_DIMENSION_CM * 100)

validate_weight(value) ==
    MIN_WEIGHT_TENTHS * 10 <= value /\ value <= MAX_WEIGHT_KG * 100

validate_wattage_upper_only(value) == value <= MAX_WATTS

validate_wattage(value) == MIN_WATTAGE <= value /\ value <= MAX_WATTS

validate_piece_count(value) == MIN_PIECES <= value /\ value <= MAX_PIECES

validate_voltage(value) == MIN_VOLTAGE * 100 <= value /\ value <= MAX_VOLTAGE * 100

\* validator=validate_...: the validator select_field was handed, by name
call_validator(validator, value) ==
    CASE validator = "validate_wattage" -> validate_wattage(value)
      [] validator = "validate_dimensions" -> validate_dimensions(value)
      [] validator = "validate_weight" -> validate_weight(value)
      [] validator = "validate_piece_count" -> validate_piece_count(value)
      [] validator = "validate_voltage" -> validate_voltage(value)

\* index, in the sorted list, of the first candidate the validator accepts
select_best(sorted, validator) ==
    LET valid == {i \in DOMAIN sorted : call_validator(validator, sorted[i].value)}
    IN  IF valid = {} THEN NoCandidate
        ELSE CHOOSE i \in valid : \A j \in valid : i <= j

FirstN(s, n) == SubSeq(s, 1, Min2(n, Len(s)))

missing_entry_no_low(no_best, low, track_missing, missing_key) ==
    IF no_best /\ track_missing /\ missing_key # "" THEN <<missing_key>> ELSE << >>

\* "if track_missing and missing_key: missing_fields.append(missing_key)", in
\* the "not best" branch and in the low-confidence branch
missing_entry(no_best, low, track_missing, missing_key) ==
    IF (no_best \/ low) /\ track_missing /\ missing_key # ""
    THEN <<missing_key>> ELSE << >>

\* What one select_field call does: best is the index of the selected
\* candidate in sorted (NoCandidate when none is valid), returned tells whether
\* best.value is returned (otherwise None), evidence is the entry written to
\* extraction_evidence[field_label], missing and failures are what the call
\* appends to missing_fields and parsing_failures.
select_field(field_label, candidates, threshold, validator, missing_key, track_missing, log_failures) ==
    LET sorted == sorted_candidates(candidates)
        best == select_best(sorted, validator)
        low == best # NoCandidate /\ sorted[best].confidence < threshold
        failed == best = NoCandidate \/ low
    IN  [sorted |-> sorted,
         best |-> best,
         returned |-> ~failed,
         evidence |-> [candidates |-> FirstN(sorted, EVIDENCE_LIMIT),
                       selected |-> IF best = NoCandidate THEN << >>
                                    ELSE <<sorted[best]>>],
         missing |-> missing_entry(best = NoCandidate, low, track_missing, missing_key),
         failures |-> IF failed /\ log_failures
                      THEN <<[kind |-> IF best = NoCandidate THEN "No candidates"
                                       ELSE "Low confidence",
                              field |-> field_label]>>
                      ELSE << >>]

SelectedValue(sel) == IF sel.returned THEN sel.sorted[sel.best].value ELSE None
SelectedDims(sel) == IF sel.returned THEN sel.sorted[sel.best].value ELSE NoDims

(***************************************************************************)
(* ScraperAPIParser.parse_product_data                                     *)
(*                                                                         *)
(* The raw listing (api_response) is a record; for the keys the parser     *)
(* reads with dict.get the value ABSENT says the key is missing and NULL   *)
(* that it is present with the value None:                                 *)
(*   name                : ABSENT, "" or the product name; title is the    *)
(*                         text abstraction of the name;                   *)
(*   brand, asin         : ABSENT, NULL or a string;                       *)
(*   info_null           : product_information is None;                    *)
(*   info_brand, info_asin : product_information["Brand"], ["ASIN"];       *)
(*   product_information : the other spec-table entries, in order;         *)
(*   feature_bullets     : the texts of the bullets; description: a text;  *)
(*   images              : ABSENT, NULL, "[]" or "[img]";                  *)
(*   availability_status, pricing : ABSENT, NULL or a string.              *)
(* An exception raised inside the try block is caught by the final         *)
(* "except Exception" and makes the parser return None.                    *)
(***************************************************************************)
ABSENT == "<absent>"
NULL == "<None>"

Falsy(str) == str \in {ABSENT, NULL, ""}

\* .replace('Visit the ', '').replace(' Store', '').strip()
clean_brand(brand) ==
    IF brand = ABSENT THEN ""
    ELSE IF brand = "Visit the Acme Store" THEN "Acme"
    ELSE brand

\* strips zero-width characters: "<zw>" stands for one of them
sanitize_asin(asin) == IF asin = "<zw>B0TEST123" THEN "B0TEST123" ELSE asin

\* hundredths of a dollar; None when the text has no number
parse_price_string(pricing) ==
    CASE pricing = "$299.99" -> 29999
      [] pricing = "$0.00" -> 0
      [] OTHER -> None

is_unavailable(status) ==
    status \in {"Currently unavailable", "Out of Stock"}

NoEvidence == [candidates |-> << >>, selected |-> << >>]

\* the value None of the parser, as a record of the same shape
NoRecord ==
    [ok |-> FALSE, asin |-> "", name |-> "", manufacturer |-> "",
     length_cm |-> None, width_cm |-> None, weight_kg |-> None, wattage |-> None,
     voltage |-> None, piece_count |-> None, price_usd |-> None, image_url |-> "",
     parsing_failures |-> << >>, missing_fields |-> << >>,
     extraction_evidence |->
        [wattage |-> NoEvidence, dimensions |-> NoEvidence, weight |-> NoEvidence,
         piece_count |-> NoEvidence, voltage |-> NoEvidence]]

NoExtraction ==
    [wattage_before |-> << >>, wattage_candidates |-> << >>,
     math_confirmed |-> << >>, piece_count_candidates |-> << >>,
     dimensions_candidates |-> << >>, weight_candidates |-> << >>,
     voltage_candidates |-> << >>]

\* the candidate lists parse_product_data holds before it selects
extraction(r) ==
    LET wattage_candidates == extract_wattage(r)
        math_confirmed == build_math_confirmed_piece_count(wattage_candidates)
    IN  [wattage_before |-> wattage_before_boost(r),
         wattage_candidates |-> wattage_candidates,
         math_confirmed |-> math_confirmed,
         piece_count_candidates |->
            extract_piece_count(r, wattage_candidates) \o MathCandidates(math_confirmed),
         dimensions_candidates |-> extract_dimensions(r),
         weight_candidates |-> extract_weight(r),
         voltage_candidates |-> extract_voltage(r)]

\* product_info.get('Brand', 'Unknown') when the cleaned brand is empty
manufacturer_of(r) ==
    IF clean_brand(r.brand) # "" THEN clean_brand(r.brand)
    ELSE IF r.info_brand = ABSENT THEN "Unknown" ELSE r.info_brand

\* The three "return None" of the required fields are passed and no
\* statement before the extraction raised (None has no .get and no .replace).
reaches_extraction(r) ==
    LET asin == IF ~Falsy(r.asin) THEN r.asin ELSE r.info_asin
        asin_raises == Falsy(r.asin) /\ r.info_null
        brand_raises == r.brand = NULL \/ (clean_brand(r.brand) = "" /\ r.info_null)
    IN  /\ ~asin_raises
        /\ ~Falsy(r.name)
        /\ ~brand_raises
        /\ ~(Falsy(manufacturer_of(r)) \/ manufacturer_of(r) = "Unknown")
        /\ ~Falsy(asin)

PriceFailure == [kind |-> "Failed to parse price", field |-> "price"]

parse_product_data(r) ==
    LET asin == IF ~Falsy(r.asin) THEN r.asin ELSE r.info_asin
        manufacturer == manufacturer_of(r)
        x == extraction(r)
        wattage == select_field("wattage", x.wattage_candidates, WATTAGE_THRESHOLD,
                                "validate_wattage", "wattage", TRUE, TRUE)
        dimensions == select_field("dimensions", x.dimensions_candidates,
                                   DIMENSIONS_THRESHOLD, "validate_dimensions",
                                   "dimensions", TRUE, TRUE)
        weight == select_field("weight", x.weight_candidates, WEIGHT_THRESHOLD,
                               "validate_weight", "weight", TRUE, TRUE)
        piece_count == select_field("piece_count", x.piece_count_candidates,
                                    PIECE_COUNT_THRESHOLD, "validate_piece_count",
                                    "", FALSE, FALSE)
        voltage == select_field("voltage", x.voltage_candidates, VOLTAGE_THRESHOLD,
                                "validate_voltage", "", FALSE, FALSE)
        status_raises == r.availability_status = NULL
        unavailable == is_unavailable(r.availability_status)
        price_raises == ~unavailable /\ r.pricing = NULL
        parsed_price == parse_price_string(r.pricing)
        price_failed == ~unavailable /\ ~Truthy(parsed_price)
        images_raise == r.images \in {NULL, "[]"}
    IN  IF ~reaches_extraction(r) THEN NoRecord
        ELSE IF status_raises \/ price_raises \/ images_raise THEN NoRecord
        ELSE
        [ok |-> TRUE,
         asin |-> sanitize_asin(asin),
         name |-> r.name,
         manufacturer |-> manufacturer,
         length_cm |-> IF dimensions.returned THEN SelectedDims(dimensions)[1] ELSE None,
         width_cm |-> IF dimensions.returned THEN SelectedDims(dimensions)[2] ELSE None,
         weight_kg |-> SelectedValue(weight),
         wattage |-> SelectedValue(wattage),
         voltage |-> SelectedValue(voltage),
         piece_count |-> SelectedValue(piece_count),
         price_usd |-> IF unavailable THEN 0
                       ELSE IF price_failed THEN None ELSE parsed_price,
         image_url |-> IF r.images = "[img]" THEN "img" ELSE NULL,
         parsing_failures |->
            wattage.failures \o dimensions.failures \o weight.failures
                \o piece_count.failures \o voltage.failures
                \o (IF price_failed THEN <<PriceFailure>> ELSE << >>),
         missing_fields |->
            wattage.missing \o dimensions.missing \o weight.missing
                \o piece_count.missing \o voltage.missing
                \o (IF price_failed THEN <<"price">> ELSE << >>),
         extraction_evidence |->
            [wattage |-> wattage.evidence, dimensions |-> dimensions.evidence,
             weight |-> weight.evidence, piece_count |-> piece_count.evidence,
             voltage |-> voltage.evidence]]

ParseIdle ==
    /\ api_response = << >>
    /\ panel_data = NoRecord
    /\ extracted = NoExtraction

ParseProductData ==
    /\ pc = "call"
    /\ panel_data' = parse_product_data(api_response)
    /\ extracted' = IF reaches_extraction(api_response)
                    THEN extraction(api_response) ELSE NoExtraction
    /\ pc' = "return"
    /\ UNCHANGED <<api_response, powerVars, dimVars, reparseVars, ingestVars, priceVars, stageVars,
                   retryVars>>

(***************************************************************************)
(* The raw listings of the model                                           *)
(***************************************************************************)
NoWeightString == [has_number |-> FALSE, tenths |-> 0, unit |-> "none"]
NoPack == [suffix |-> None, prefix |-> None]

\* the empty string, and a text with none of the matches above
EmptyText ==
    [empty |-> TRUE, watt |-> << >>, dims |-> NoDimString, weight |-> NoWeightString,
     int |-> None, nums |-> << >>, pack |-> NoPack]
PlainText == [EmptyText EXCEPT !.empty = FALSE]

WattText(mentions) == [PlainText EXCEPT !.watt = mentions]
DimText(d) == [PlainText EXCEPT !.dims = d]
WeightText(w) == [PlainText EXCEPT !.weight = w]
IntText(n) == [PlainText EXCEPT !.int = n]
NumsText(nums) == [PlainText EXCEPT !.nums = nums]
PackText(pack) == [PlainText EXCEPT !.pack = pack]

Entry(key, text) == [key |-> key, value |-> text]

BaseListing ==
    [name |-> "Panel", title |-> PlainText, brand |-> "Acme", asin |-> "B0TEST123",
     info_null |-> FALSE, info_brand |-> ABSENT, info_asin |-> ABSENT,
     product_information |-> << >>, feature_bullets |-> << >>,
     description |-> EmptyText, images |-> ABSENT, availability_status |-> ABSENT,
     pricing |-> ABSENT]

\* every combination of the required and the optional top-level keys
KeyListings ==
    {[BaseListing EXCEPT !.name = n, !.brand = b, !.asin = a, !.info_null = inull,
                         !.info_brand = ib, !.info_asin = ia, !.images = im,
                         !.availability_status = st, !.pricing = pr] :
        n \in {ABSENT, "", "Panel"},
        b \in {ABSENT, NULL, "", "Acme", "Unknown", "Visit the Acme Store"},
        a \in {ABSENT, "B0TEST123", "<zw>B0TEST123"},
        inull \in BOOLEAN,
        ib \in {ABSENT, "Acme", "Unknown"},
        ia \in {ABSENT, "B0INFO456"},
        im \in {ABSENT, NULL, "[]", "[img]"},
        st \in {ABSENT, NULL, "In Stock", "Currently unavailable"},
        pr \in {ABSENT, NULL, "N/A", "$0.00", "$299.99"}}
    \ {r \in [name : {ABSENT, "", "Panel"},
                title : {PlainText},
                brand : {ABSENT, NULL, "", "Acme", "Unknown", "Visit the Acme Store"},
                asin : {ABSENT, "B0TEST123", "<zw>B0TEST123"},
                info_null : {TRUE},
                info_brand : {ABSENT, "Acme", "Unknown"},
                info_asin : {ABSENT, "B0INFO456"},
                product_information : {<< >>}, feature_bullets : {<< >>},
                description : {EmptyText},
                images : {ABSENT, NULL, "[]", "[img]"},
                availability_status : {ABSENT, NULL, "In Stock", "Currently unavailable"},
                pricing : {ABSENT, NULL, "N/A", "$0.00", "$299.99"}] :
            r.info_brand # ABSENT \/ r.info_asin # ABSENT}

\* wattage mentions
MaxMentions == 2
WattCounts == {1, 2}
WattTenths == {1000, 2000}

Mention(pattern, count, tenths, kw, noise, boundary) ==
    [pattern |-> pattern, count |-> count, tenths |-> tenths, kw |-> kw,
     noise |-> noise, boundary |-> boundary]

MentionsWith(tenths, noises) ==
    {Mention("count_x_wattage", c, t, FALSE, n, TRUE) :
        c \in WattCounts, t \in tenths, n \in noises}
    \cup {Mention("wattage_x_count", 2, 1000, FALSE, n, b) : n \in noises, b \in BOOLEAN}
    \cup {Mention("wattage_x_count", 1, 2000, FALSE, n, FALSE) : n \in noises}
    \cup {Mention("count_pcs_wattage", 2, 1000, FALSE, n, TRUE) : n \in noises}
    \cup {Mention("simple", 0, t, FALSE, n, TRUE) : t \in tenths, n \in noises}

\* 3 W (below the valid range), 1.5 kW and 2500 W (rejected by parse_power_string)
OddMentions ==
    {Mention("simple", 0, 30, FALSE, FALSE, TRUE),
     Mention("simple", 0, 15, TRUE, FALSE, TRUE),
     Mention("simple", 0, 25000, FALSE, FALSE, TRUE)}

RECURSIVE SeqsUpTo(_, _)
SeqsUpTo(S, n) ==
    IF n = 0 THEN {<< >>}
    ELSE LET shorter == SeqsUpTo(S, n - 1)
         IN  shorter \cup {Append(q, x) : q \in shorter, x \in S}

CleanMentions == MentionsWith(WattTenths, {FALSE}) \cup OddMentions
NoisyMentions == MentionsWith({1000}, BOOLEAN)

TitleSamples ==
    {PlainText,
     WattText(<<Mention("simple", 0, 1000, FALSE, FALSE, TRUE)>>),
     WattText(<<Mention("count_x_wattage", 2, 1000, FALSE, FALSE, TRUE)>>)}

\* a wattage entry of the spec table, and a title
WattageListings ==
    {[BaseListing EXCEPT !.product_information = <<Entry(k, WattText(m))>>,
                         !.title = t] :
        k \in {"Maximum Power", "Rated Power"},
        m \in SeqsUpTo(CleanMentions, MaxMentions),
        t \in TitleSamples}

\* mentions with and without a noise term around them, in a feature bullet
NoiseListings ==
    {[BaseListing EXCEPT !.feature_bullets = <<WattText(m)>>] :
        m \in SeqsUpTo(NoisyMentions, MaxMentions)}

\* dimension strings: 100 x 50 x 2 cm, 1000.1 x 500 x 20 mm, 450 x 100 x 2 cm,
\* 43 x 33.9 x 1 inches, 0 x 0 x 0.5 cm
Bare(nums, unit) == [labeled |-> << >>, nums |-> nums, unit |-> unit]

DimSamples ==
    {Bare(<<1000, 500, 20>>, "cm"), Bare(<<10001, 5000, 200>>, "mm"),
     Bare(<<4500, 1000, 20>>, "cm"), Bare(<<430, 339, 10>>, "in"),
     Bare(<<0, 0, 5>>, "cm")}

\* the value of a dimension entry: its numbers are also what \d+ finds
DimEntryText(d) ==
    [PlainText EXCEPT !.dims = d, !.int = d.nums[1] \div 10, !.nums = d.nums]

DimensionListings ==
    {[BaseListing EXCEPT
            !.product_information = <<Entry("Product Dimensions", DimEntryText(a))>> \o pk,
            !.title = t, !.description = ds] :
        a \in DimSamples,
        pk \in {<< >>} \cup {<<Entry("Package Dimensions", DimEntryText(b))>> :
                                b \in DimSamples},
        t \in {PlainText, DimText(Bare(<<1000, 500, 20>>, "cm")),
               DimText(Bare(<<430, 339, 10>>, "in"))},
        ds \in {EmptyText, DimText(Bare(<<1000, 500, 20>>, "cm"))}}

\* 10 kg, 150 kg, 40 g, 22 lb, 352.7 oz, 0 kg
Weight(tenths, unit) == [has_number |-> TRUE, tenths |-> tenths, unit |-> unit]

WeightSamples ==
    {Weight(100, "kg"), Weight(1500, "kg"), Weight(400, "g"), Weight(220, "lb"),
     Weight(3527, "oz"), Weight(0, "kg")}

WeightEntryText(w) ==
    [PlainText EXCEPT !.weight = w, !.int = w.tenths \div 10, !.nums = <<w.tenths>>]

WeightListings ==
    {[BaseListing EXCEPT !.product_information = iw \o pw] :
        iw \in {<< >>, <<Entry("Item Weight", EmptyText)>>, <<Entry("Item Weight", PlainText)>>}
                \cup {<<Entry("Item Weight", WeightEntryText(a))>> : a \in WeightSamples},
        pw \in {<< >>} \cup {<<Entry("Package Weight", WeightEntryText(b))>> :
                                b \in WeightSamples}}

\* 2240 g, 2250 g and 2260 g under the three weight keys
NearWeightListings ==
    {[BaseListing EXCEPT !.product_information =
            <<Entry("Item Weight", WeightEntryText(Weight(a, "g"))),
              Entry("Weight", WeightEntryText(Weight(b, "g"))),
              Entry("Package Weight", WeightEntryText(Weight(c, "g")))>>] :
        a, b, c \in {22400, 22500, 22600}}

\* "2 x 100W panels, 200W in total" in the title or in the description, with
\* and without a piece count in the spec table
MathText ==
    WattText(<<Mention("count_x_wattage", 2, 1000, FALSE, FALSE, TRUE),
               Mention("simple", 0, 2000, FALSE, FALSE, TRUE)>>)

MathListings ==
    {[BaseListing EXCEPT !.product_information = pi, !.title = t, !.description = d] :
        pi \in {<< >>} \cup {<<Entry("Item Package Quantity", IntText(n))>> : n \in {1, 2}},
        t \in {PlainText, MathText},
        d \in {EmptyText, MathText}}

PackSamples ==
    [suffix : {None, 2, 4}, prefix : {None, 2}]

PieceListings ==
    {[BaseListing EXCEPT !.product_information = pi, !.title = [t EXCEPT !.pack = tp],
                         !.feature_bullets = fb] :
        pi \in {<< >>} \cup {<<Entry("Item Package Quantity", IntText(n))>> :
                                n \in {None, 0, 1, 2, 51}},
        t \in TitleSamples,
        tp \in PackSamples,
        fb \in {<< >>, <<PlainText>>, <<PackText([suffix |-> 2, prefix |-> None])>>,
                <<PlainText, PackText([suffix |-> 4, prefix |-> 2])>>}}

\* the numbers of a voltage text: 12, 18.5, 12.5, 220, 100 and 24, 0.5
VoltageSamples ==
    {<<120>>, <<185>>, <<125>>, <<2200>>, <<1000, 240>>, <<5>>, <<2200, 1000>>}

VoltageListings ==
    {[BaseListing EXCEPT !.product_information = ov \o v, !.title = t,
                         !.feature_bullets = fb] :
        ov \in {<< >>, <<Entry("Output Voltage", PlainText)>>}
                \cup {<<Entry("Output Voltage", NumsText(a))>> : a \in VoltageSamples},
        v \in {<< >>} \cup {<<Entry("Voltage", NumsText(b))>> : b \in VoltageSamples},
        t \in {PlainText, NumsText(<<120>>), NumsText(<<1000>>), NumsText(<<2200>>)},
        fb \in {<< >>, <<NumsText(<<120>>), NumsText(<<240>>)>>, <<NumsText(<<2200>>)>>}}

\* complete and incomplete spec tables, with every price and availability
FullListings ==
    {[BaseListing EXCEPT !.product_information = w \o d \o k,
                         !.availability_status = st, !.pricing = pr] :
        w \in {<< >>, <<Entry("Maximum Power", EmptyText)>>,
               <<Entry("Maximum Power",
                       WattText(<<Mention("simple", 0, 4000, FALSE, FALSE, TRUE)>>))>>},
        d \in {<< >>, <<Entry("Product Dimensions",
                              DimEntryText(Bare(<<1000, 500, 20>>, "cm")))>>},
        k \in {<< >>, <<Entry("Item Weight", WeightEntryText(Weight(100, "kg")))>>},
        st \in {ABSENT, "In Stock", "Currently unavailable", "Out of Stock"},
        pr \in {ABSENT, "", "N/A", "$0.00", "$299.99"}}

Listings ==
    KeyListings \cup WattageListings \cup NoiseListings \cup DimensionListings
        \cup WeightListings \cup NearWeightListings \cup MathListings
        \cup PieceListings \cup VoltageListings \cup FullListings

(***************************************************************************)
(* reparse_raw_scraper_data.run_reparse                                    *)
(*                                                                         *)
(* A stored panel is a record of its six target fields (None for NULL),    *)
(* its missing_fields list and its two override lists (as sets).  A raw    *)
(* row is [panel_id, has_response, scraper_response]; panel_id 0 stands    *)
(* for a row without panel_id.  Stored numbers use the units of the        *)
(* parser's record (watts and pieces in units, the others in hundredths).  *)
(***************************************************************************)
TARGET_FIELDS ==
    <<"wattage", "length_cm", "width_cm", "weight_kg", "piece_count", "voltage">>

TargetFields == {TARGET_FIELDS[i] : i \in DOMAIN TARGET_FIELDS}

FLAG_FIELD_ALIASES_identity(field) == {field}

FLAG_FIELD_ALIASES(field) ==
    CASE field \in {"length_cm", "width_cm"} -> {"length_cm", "width_cm", "dimensions"}
      [] field = "weight_kg" -> {"weight_kg", "weight"}
      [] OTHER -> {field}

MISSING_FIELD_MAP ==
    [f \in {"wattage", "weight_kg", "length_cm", "width_cm"} |->
        CASE f = "wattage" -> "wattage"
          [] f = "weight_kg" -> "weight"
          [] OTHER -> "dimensions"]

\* abs(old - new) <= 0.01: equality for the integer fields, one hundredth
\* for the fields kept in hundredths
FieldTolerance(field) == IF field \in {"wattage", "piece_count"} THEN 0 ELSE TOLERANCE

values_equal(old, new, tol) ==
    IF old = None /\ new = None THEN TRUE
    ELSE IF old = None \/ new = None THEN FALSE
    ELSE Abs(old - new) <= tol

NoMissingUpdate == [present |-> FALSE, value |-> << >>]

\* None (NoMissingUpdate) when nothing is removed from the list
update_missing_fields(current_missing, remove_keys) ==
    LET Kept(key) == key \notin remove_keys
        updated == SelectSeq(current_missing, Kept)
    IN  IF remove_keys = {} \/ updated = current_missing THEN NoMissingUpdate
        ELSE [present |-> TRUE, value |-> updated]

build_flag_clear_fields(update) ==
    UNION {FLAG_FIELD_ALIASES(f) : f \in DOMAIN update.fields}

\* the ids (positions) of the flags resolve_pending_flags marks resolved
flags_to_resolve(flags, panel_id, fields_to_clear) ==
    {i \in DOMAIN flags :
        /\ fields_to_clear # {}
        /\ flags[i].panel_id = panel_id
        /\ flags[i].status = "pending"
        /\ flags[i].flag_type # "deletion_recommendation"
        /\ flags[i].flagged_fields \cap fields_to_clear # {}}

resolve_pending_flags(flags, panel_id, fields_to_clear) ==
    [i \in DOMAIN flags |->
        IF i \in flags_to_resolve(flags, panel_id, fields_to_clear)
        THEN [flags[i] EXCEPT !.status = "resolved"] ELSE flags[i]]

protected_fields_manual_only(panel) == panel.manual_overrides

protected_fields(panel) == panel.manual_overrides \cup panel.user_verified_overrides

\* the three early "continue" of the required fields of the raw response
required_missing(r) ==
    LET raw_asin == IF ~Falsy(r.asin) THEN r.asin ELSE r.info_asin
        raw_brand == IF ~Falsy(r.brand) THEN r.brand ELSE r.info_brand
    IN  Falsy(r.name) \/ Falsy(raw_asin) \/ Falsy(raw_brand)

EvidenceKey(field) ==
    CASE field \in {"length_cm", "width_cm"} -> "dimensions"
      [] field = "weight_kg" -> "weight"
      [] OTHER -> field

override_check_equal_first(field, new_value, current_value, check_overrides, protected) ==
    IF ~check_overrides \/ field \notin protected THEN "unchecked"
    ELSE IF values_equal(current_value, new_value, FieldTolerance(field)) THEN "confirmed"
    ELSE IF new_value = None THEN "unparsed"
    ELSE "mismatch"

\* register_override_check: "unchecked", "unparsed", "confirmed" or "mismatch"
override_check(field, new_value, current_value, check_overrides, protected) ==
    IF ~check_overrides \/ field \notin protected THEN "unchecked"
    ELSE IF new_value = None THEN "unparsed"
    ELSE IF values_equal(current_value, new_value, FieldTolerance(field)) THEN "confirmed"
    ELSE "mismatch"

\* the order of the register_override_check calls
CHECK_ORDER ==
    <<"wattage", "weight_kg", "length_cm", "width_cm", "piece_count", "voltage">>

mismatch_report(field, panel, parsed) ==
    LET selected == parsed.extraction_evidence[EvidenceKey(field)].selected
    IN  [field |-> field, current |-> panel[field], proposed |-> parsed[field],
         selected |-> selected]

staged_fields_no_fill(panel, parsed) ==
    LET protected == protected_fields(panel)
        Differs(f) == ~values_equal(panel[f], parsed[f], FieldTolerance(f))
        Plain(f) == /\ parsed[f] # None /\ panel[f] # None
                    /\ f \notin protected /\ Differs(f)
        pair == /\ parsed.length_cm # None /\ parsed.width_cm # None
                /\ "length_cm" \notin protected /\ "width_cm" \notin protected
                /\ (Differs("length_cm") \/ Differs("width_cm"))
    IN  {f \in {"wattage", "weight_kg", "piece_count", "voltage"} : Plain(f)}
            \cup (IF pair THEN {"length_cm", "width_cm"} ELSE {})

staged_fields_each_dimension(panel, parsed) ==
    LET protected == protected_fields(panel)
        Differs(f) == ~values_equal(panel[f], parsed[f], FieldTolerance(f))
        Plain(f) == parsed[f] # None /\ f \notin protected /\ Differs(f)
    IN  {f \in TargetFields : Plain(f)}

staged_fields_with_null(panel, parsed) ==
    LET protected == protected_fields(panel)
        Differs(f) == ~values_equal(panel[f], parsed[f], FieldTolerance(f))
        Plain(f) == f \notin protected /\ Differs(f)
        pair == /\ parsed.length_cm # None /\ parsed.width_cm # None
                /\ "length_cm" \notin protected /\ "width_cm" \notin protected
                /\ (Differs("length_cm") \/ Differs("width_cm"))
    IN  {f \in {"wattage", "weight_kg", "piece_count", "voltage"} : Plain(f)}
            \cup (IF pair THEN {"length_cm", "width_cm"} ELSE {})

\* the fields run_reparse puts in update_data
staged_fields(panel, parsed) ==
    LET protected == protected_fields(panel)
        Differs(f) == ~values_equal(panel[f], parsed[f], FieldTolerance(f))
        Plain(f) == parsed[f] # None /\ f \notin protected /\ Differs(f)
        pair == /\ parsed.length_cm # None /\ parsed.width_cm # None
                /\ "length_cm" \notin protected /\ "width_cm" \notin protected
                /\ (Differs("length_cm") \/ Differs("width_cm"))
    IN  {f \in {"wattage", "weight_kg", "piece_count", "voltage"} : Plain(f)}
            \cup (IF pair THEN {"length_cm", "width_cm"} ELSE {})

remove_missing(staged) ==
    {MISSING_FIELD_MAP[f] : f \in staged \cap DOMAIN MISSING_FIELD_MAP}

NoUpdate == [fields |-> [f \in {} |-> None], missing_fields |-> NoMissingUpdate]

build_update(panel, parsed) ==
    LET staged == staged_fields(panel, parsed)
    IN  [fields |-> [f \in staged |-> parsed[f]],
         missing_fields |-> update_missing_fields(panel.missing_fields,
                                                  remove_missing(staged))]

IsEmptyUpdate(update) == DOMAIN update.fields = {} /\ ~update.missing_fields.present

\* client.table('solar_panels').update(update_data)
apply_update(panel, update) ==
    [k \in DOMAIN panel |->
        IF k \in DOMAIN update.fields THEN update.fields[k]
        ELSE IF k = "missing_fields" /\ update.missing_fields.present
        THEN update.missing_fields.value
        ELSE panel[k]]

\* 400 W, 100 x 50 x 2 cm, 10 kg, 12 V, 2 pieces
FullResponse ==
    [BaseListing EXCEPT !.product_information =
        <<Entry("Maximum Power",
                WattText(<<Mention("simple", 0, 4000, FALSE, FALSE, TRUE)>>)),
          Entry("Product Dimensions", DimEntryText(Bare(<<1000, 500, 20>>, "cm"))),
          Entry("Item Weight", WeightEntryText(Weight(100, "kg"))),
          Entry("Output Voltage", NumsText(<<120>>)),
          Entry("Item Package Quantity", IntText(2))>>]

\* 100 W, 43 x 33.9 x 1 inches, 22 lb
OtherResponse ==
    [BaseListing EXCEPT !.product_information =
        <<Entry("Maximum Power",
                WattText(<<Mention("simple", 0, 1000, FALSE, FALSE, TRUE)>>)),
          Entry("Product Dimensions", DimEntryText(Bare(<<430, 339, 10>>, "in"))),
          Entry("Item Weight", WeightEntryText(Weight(220, "lb")))>>]

\* 1000.1 x 500 x 20 mm: within the tolerance of 100 x 50 cm; no other field
NearResponse ==
    [BaseListing EXCEPT !.product_information =
        <<Entry("Product Dimensions", DimEntryText(Bare(<<10001, 5000, 200>>, "mm")))>>]

ReparseResponses ==
    {FullResponse, OtherResponse, NearResponse, BaseListing,
     [FullResponse EXCEPT !.name = ABSENT], [FullResponse EXCEPT !.images = "[]"]}

\* parsed = ScraperAPIParser.parse_product_data(raw_response); the records of
\* the raw responses of the model are tabulated once
ParsedResponses == [r \in ReparseResponses |-> parse_product_data(r)]

parse_raw_response(raw_response) == ParsedResponses[raw_response]

NoChecks == [f \in TargetFields |-> "unchecked"]

applies_always(switches) == TRUE

\* "if args.apply:" before the write and the resolution of the flags
applies(switches) == switches.apply

\* The body of the loop for one row, parsed being what parse_product_data
\* returns for the row's raw response (read only once the required raw fields
\* are there): how it ends (outcome), the record the parser returned, the outcome of each register_override_check, the mismatch
\* reports in call order, the update map as built when the body ends, whether
\* the update is written, and the flags resolved after the write.
process_row(row, parsed, panels, flags, switches) ==
    LET early(how) ==
            [outcome |-> how, parsed |-> NoRecord, checks |-> NoChecks,
             mismatches |-> << >>, staged |-> {}, update |-> NoUpdate,
             written |-> FALSE, resolved |-> {}]
        panel == panels[row.panel_id]
        raw_response == row.scraper_response
        check_overrides == switches.check_overrides \/ switches.override_mismatch_only
        checks == [f \in TargetFields |->
                    override_check(f, parsed[f], panel[f], check_overrides,
                                   protected_fields(panel))]
        Mismatched(f) == checks[f] = "mismatch"
        reports == [i \in DOMAIN SelectSeq(CHECK_ORDER, Mismatched) |->
                        mismatch_report(SelectSeq(CHECK_ORDER, Mismatched)[i],
                                        panel, parsed)]
        staged == staged_fields(panel, parsed)
        fields_only == [fields |-> [f \in staged |-> parsed[f]],
                        missing_fields |-> NoMissingUpdate]
        update == build_update(panel, parsed)
        late(how, u, written) ==
            [outcome |-> how, parsed |-> parsed, checks |-> checks,
             mismatches |-> reports, staged |-> staged, update |-> u,
             written |-> written,
             resolved |-> IF written
                          THEN flags_to_resolve(flags, row.panel_id,
                                                build_flag_clear_fields(u))
                          ELSE {}]
    IN  IF row.panel_id = 0 THEN early("missing_panel")
        ELSE IF ~row.has_response THEN early("missing_raw")
        ELSE IF row.panel_id \notin DOMAIN panels THEN early("missing_panel")
        ELSE IF /\ switches.only_missing
                /\ {panel.missing_fields[i] : i \in DOMAIN panel.missing_fields}
                        \cap {"wattage", "weight", "dimensions"} = {}
        THEN early("skipped_only_missing")
        ELSE IF required_missing(raw_response) THEN early("missing_required")
        ELSE IF ~parsed.ok THEN early("parse_failed")
        ELSE IF switches.override_mismatch_only /\ reports = << >>
        THEN late("skipped_no_mismatch", fields_only, FALSE)
        ELSE IF IsEmptyUpdate(update) THEN late("skipped_no_change", update, FALSE)
        ELSE IF applies(switches) THEN late("applied", update, TRUE)
        ELSE late("planned", update, FALSE)

Counters ==
    {"rows_processed", "rows_skipped", "rows_missing_panel", "rows_missing_raw",
     "parse_failed", "parse_failed_missing_required", "parse_failed_unknown",
     "rows_with_override_mismatch", "updates_planned", "updates_applied",
     "flags_resolved"}

build_summary ==
    [counts |-> [c \in Counters |-> 0],
     field_updates |-> [f \in TargetFields |-> 0],
     override_confirmed |-> [f \in TargetFields |-> 0],
     override_mismatch |-> [f \in TargetFields |-> 0],
     override_unparsed |-> [f \in TargetFields |-> 0]]

\* the counters the loop body increments for a row that ended as result says
count_row(total, result) ==
    LET o == result.outcome
        reached == o \in {"skipped_no_mismatch", "skipped_no_change", "planned", "applied"}
        Inc(c) ==
            CASE c = "rows_processed" -> 1
              [] c = "rows_skipped" ->
                    IF o \in {"skipped_only_missing", "skipped_no_mismatch",
                              "skipped_no_change"} THEN 1 ELSE 0
              [] c = "rows_missing_panel" -> IF o = "missing_panel" THEN 1 ELSE 0
              [] c = "rows_missing_raw" -> IF o = "missing_raw" THEN 1 ELSE 0
              [] c = "parse_failed" ->
                    IF o \in {"missing_required", "parse_failed"} THEN 1 ELSE 0
              [] c = "parse_failed_missing_required" ->
                    IF o = "missing_required" THEN 1 ELSE 0
              [] c = "parse_failed_unknown" -> IF o = "parse_failed" THEN 1 ELSE 0
              [] c = "rows_with_override_mismatch" ->
                    IF reached /\ result.mismatches # << >> THEN 1 ELSE 0
              [] c = "updates_planned" -> IF o \in {"planned", "applied"} THEN 1 ELSE 0
              [] c = "updates_applied" -> IF o = "applied" THEN 1 ELSE 0
              [] OTHER -> Cardinality(result.resolved)
        Add(per_field, hit(_)) ==
            [f \in TargetFields |-> per_field[f] + (IF reached /\ hit(f) THEN 1 ELSE 0)]
    IN  [counts |-> [c \in Counters |-> total.counts[c] + Inc(c)],
         field_updates |-> Add(total.field_updates, LAMBDA f : f \in result.staged),
         override_confirmed |->
            Add(total.override_confirmed, LAMBDA f : result.checks[f] = "confirmed"),
         override_mismatch |->
            Add(total.override_mismatch, LAMBDA f : result.checks[f] = "mismatch"),
         override_unparsed |->
            Add(total.override_unparsed, LAMBDA f : result.checks[f] = "unparsed")]

ReparseIdle ==
    /\ args = [apply |-> FALSE, only_missing |-> FALSE, check_overrides |-> FALSE,
               override_mismatch_only |-> FALSE]
    /\ rows = << >>
    /\ row_index = 0
    /\ solar_panels = << >>
    /\ user_flags = << >>
    /\ update_data = NoUpdate
    /\ override_mismatches = << >>
    /\ outcome = "none"
    /\ summary = build_summary

\* rows = fetch_raw_rows(...); "if not rows: return summary"
FetchRawRows ==
    /\ pc = "call"
    /\ pc' = IF rows = << >> THEN "return" ELSE "loop"
    /\ row_index' = 1
    /\ UNCHANGED <<args, rows, solar_panels, user_flags, update_data,
                   override_mismatches, outcome, summary, powerVars, dimVars, parseVars,
                   ingestVars, priceVars, stageVars,
                   retryVars>>

\* one iteration of "for row in rows"
ReparseRow ==
    /\ pc = "loop"
    /\ \E row \in {rows[row_index]} :
       \E parsed \in {parse_raw_response(row.scraper_response)} :
       \E result \in {process_row(row, parsed, solar_panels, user_flags, args)} :
           /\ outcome' = result.outcome
           /\ update_data' = result.update
           /\ override_mismatches' = result.mismatches
           /\ summary' = count_row(summary, result)
           /\ solar_panels' =
                IF result.written
                THEN [solar_panels EXCEPT ![row.panel_id] = apply_update(@, result.update)]
                ELSE solar_panels
           /\ user_flags' =
                IF result.written
                THEN resolve_pending_flags(user_flags, row.panel_id,
                                           build_flag_clear_fields(result.update))
                ELSE user_flags
           /\ api_response' = row.scraper_response
           /\ panel_data' = result.parsed
    /\ row_index' = row_index + 1
    /\ pc' = IF row_index = Len(rows) THEN "return" ELSE "loop"
    /\ UNCHANGED <<args, rows, extracted, powerVars, dimVars, ingestVars, priceVars, stageVars,
                   retryVars>>

(***************************************************************************)
(* The tables and raw rows of the model                                    *)
(***************************************************************************)
MaxRows == 2

Row(panel_id, has_response, scraper_response) ==
    [panel_id |-> panel_id, has_response |-> has_response,
     scraper_response |-> scraper_response]

\* panel 1 and panel 2 are stored, panel 3 is not; 0 is a row without panel_id
MainRows ==
    {Row(1, TRUE, FullResponse), Row(1, TRUE, OtherResponse), Row(1, TRUE, NearResponse),
     Row(1, TRUE, BaseListing), Row(2, TRUE, OtherResponse)}

\* rows the loop leaves before it compares anything
EdgeRows ==
    {Row(1, TRUE, [FullResponse EXCEPT !.name = ABSENT]),
     Row(1, TRUE, [FullResponse EXCEPT !.images = "[]"]),
     Row(1, FALSE, BaseListing), Row(0, TRUE, FullResponse), Row(3, TRUE, FullResponse)}

\* up to MaxRows main rows, or an edge row before a row of each stored panel
RowSequences ==
    SeqsUpTo(MainRows, MaxRows)
        \cup {<<e>> \o q : e \in EdgeRows,
                q \in {<< >>, <<Row(1, TRUE, FullResponse)>>,
                        <<Row(2, TRUE, OtherResponse)>>}}

Panel(wattage, length_cm, width_cm, weight_kg, piece_count, voltage, missing_fields, manual_overrides, user_verified_overrides) ==
    [wattage |-> wattage, length_cm |-> length_cm, width_cm |-> width_cm,
     weight_kg |-> weight_kg, piece_count |-> piece_count, voltage |-> voltage,
     missing_fields |-> missing_fields, manual_overrides |-> manual_overrides,
     user_verified_overrides |-> user_verified_overrides]

\* <<manual_overrides, user_verified_overrides>>
Protections ==
    {<<{}, {}>>, <<{"wattage"}, {}>>, <<{}, {"length_cm"}>>,
     <<{"width_cm", "weight_kg"}, {"piece_count"}>>, <<{"voltage"}, {"wattage"}>>}

StoredPanels ==
    {Panel(None, None, None, None, None, None,
           <<"wattage", "dimensions", "weight", "price">>, p[1], p[2]) :
        p \in Protections}
    \cup {Panel(400, 10000, 5000, 1000, 2, 1200, << >>, p[1], p[2]) :
            p \in Protections}
    \cup {Panel(300, 5000, 10000, 1200, 1, 2400, <<"price", "weight">>, p[1], p[2]) :
            p \in Protections}

OtherPanel == Panel(200, None, None, 998, None, 1200, <<"dimensions">>, {"voltage"}, {})

Flag(panel_id, flagged_fields, flag_type, status) ==
    [panel_id |-> panel_id, flagged_fields |-> flagged_fields,
     flag_type |-> flag_type, status |-> status]

StoredFlags ==
    <<Flag(1, {"wattage", "dimensions"}, "system_missing_data", "pending"),
      Flag(1, {"wattage"}, "deletion_recommendation", "pending"),
      Flag(1, {"price"}, "user_report", "pending"),
      Flag(1, {"weight"}, "user_report", "dismissed"),
      Flag(2, {"weight_kg", "wattage"}, "user_report", "pending")>>

Switches ==
    [apply : BOOLEAN, only_missing : BOOLEAN, check_overrides : BOOLEAN,
     override_mismatch_only : BOOLEAN]

(***************************************************************************)
(* asin_manager.ASINManager: the staging queue, table asin_staging         *)
(*                                                                         *)
(* ASIN k is the k-th row staged (created_at ascending).  A row keeps      *)
(* status, attempts, max_attempts, priority and error_message; the         *)
(* timestamps last_attempt_at and ingested_at are not modelled.            *)
(***************************************************************************)
NumASINs == 2
ASINS == 1 .. NumASINs
DEFAULT_MAX_ATTEMPTS == 3

\* the row stage_asin inserts, later changed by the mark_ operations
StagingRow(status, attempts, priority, error_message) ==
    [status |-> status, attempts |-> attempts, max_attempts |-> DEFAULT_MAX_ATTEMPTS,
     priority |-> priority, error_message |-> error_message]

\* .order('priority', desc=True).order('created_at', desc=False)
OrderedBefore(table, a, b) ==
    \/ table[a].priority > table[b].priority
    \/ table[a].priority = table[b].priority /\ a < b

RECURSIVE OrderRows(_, _)
OrderRows(table, asins) ==
    IF asins = {} THEN << >>
    ELSE LET first == CHOOSE a \in asins :
                        \A b \in asins \ {a} : OrderedBefore(table, a, b)
         IN  <<first>> \o OrderRows(table, asins \ {first})

get_pending_asins(table, limit, priority_only) ==
    FirstN(OrderRows(table, {a \in DOMAIN table :
                                /\ table[a].status = "pending"
                                /\ priority_only => table[a].priority > 0}),
           limit)

InList(asin_list, asin) == \E k \in DOMAIN asin_list : asin_list[k] = asin

\* one UPDATE ... WHERE asin IN asin_list; attempts is not part of it
mark_batch_processing(table, asin_list) ==
    [a \in DOMAIN table |->
        IF InList(asin_list, a) THEN [table[a] EXCEPT !.status = "processing"]
        ELSE table[a]]

\* the rpc call and its fallback both store attempts + 1
mark_asin_processing(table, asin) ==
    IF asin \in DOMAIN table
    THEN [table EXCEPT ![asin].status = "processing", ![asin].attempts = @ + 1]
    ELSE table

mark_asin_completed(table, asin) ==
    IF asin \in DOMAIN table THEN [table EXCEPT ![asin].status = "completed"] ELSE table

failed_status_above_max(row, is_permanent) ==
    IF is_permanent THEN "failed"
    ELSE IF row.attempts > row.max_attempts THEN "failed"
    ELSE "pending"

\* "if is_permanent ... elif attempts >= max_attempts ... else"
failed_status(row, is_permanent) ==
    IF is_permanent THEN "failed"
    ELSE IF row.attempts >= row.max_attempts THEN "failed"
    ELSE "pending"

\* without a row the update matches nothing
mark_asin_failed(table, asin, error_message, is_permanent) ==
    IF asin \in DOMAIN table
    THEN [table EXCEPT ![asin].status = failed_status(table[asin], is_permanent),
                       ![asin].error_message = error_message]
    ELSE table

\* .eq('status', 'failed').limit(limit) has no ORDER BY: any limit of the
\* failed rows can be the ones selected
FailedSelections(table, limit) ==
    LET failed == {a \in DOMAIN table : table[a].status = "failed"}
    IN  {selected \in SUBSET failed :
            Cardinality(selected) = Min2(limit, Cardinality(failed))}

Retried(table, selected) ==
    {a \in selected : table[a].attempts < table[a].max_attempts}

retry_failed_asins(table, selected) ==
    [a \in DOMAIN table |->
        IF a \in Retried(table, selected)
        THEN [table[a] EXCEPT !.status = "pending", !.error_message = NULL]
        ELSE table[a]]

(***************************************************************************)
(* Direct calls of the ASINManager operations, one after another           *)
(***************************************************************************)
MaxCalls == 3
MaxAttempts == 4

NoCall == [op |-> "none", asin |-> 0, error_message |-> NULL, is_permanent |-> FALSE]

Call(op, asin, error_message, is_permanent) ==
    [op |-> op, asin |-> asin, error_message |-> error_message,
     is_permanent |-> is_permanent]

ErrorMessages == {"timeout", "parse error"}

PermanentAfter(table, asin, is_permanent) ==
    IF is_permanent /\ asin \in DOMAIN table THEN {asin} ELSE {}

CallMarkAsinProcessing ==
    /\ calls < MaxCalls
    /\ \E asin \in ASINS :
        /\ asin_staging[asin].attempts < MaxAttempts
        /\ asin_staging' = mark_asin_processing(asin_staging, asin)
        /\ last_call' = Call("mark_asin_processing", asin, NULL, FALSE)
    /\ calls' = calls + 1
    /\ UNCHANGED <<pc, permanent_failures, ingestRunVars, powerVars, dimVars, parseVars,
                   reparseVars, priceVars, stageVars,
                   retryVars>>

CallMarkAsinCompleted ==
    /\ calls < MaxCalls
    /\ \E asin \in ASINS :
        /\ asin_staging' = mark_asin_completed(asin_staging, asin)
        /\ last_call' = Call("mark_asin_completed", asin, NULL, FALSE)
    /\ calls' = calls + 1
    /\ UNCHANGED <<pc, permanent_failures, ingestRunVars, powerVars, dimVars, parseVars,
                   reparseVars, priceVars, stageVars,
                   retryVars>>

CallMarkAsinFailed ==
    /\ calls < MaxCalls
    /\ \E asin \in ASINS, error_message \in ErrorMessages, is_permanent \in BOOLEAN :
        /\ asin_staging' = mark_asin_failed(asin_staging, asin, error_message, is_permanent)
        /\ permanent_failures' =
                permanent_failures \cup PermanentAfter(asin_staging, asin, is_permanent)
        /\ last_call' = Call("mark_asin_failed", asin, error_message, is_permanent)
    /\ calls' = calls + 1
    /\ UNCHANGED <<pc, ingestRunVars, powerVars, dimVars, parseVars, reparseVars, priceVars, stageVars,
                   retryVars>>

CallMarkBatchProcessing ==
    /\ calls < MaxCalls
    /\ \E limit \in 1 .. NumASINs, priority_only \in BOOLEAN :
        asin_staging' =
            mark_batch_processing(asin_staging,
                                  get_pending_asins(asin_staging, limit, priority_only))
    /\ last_call' = Call("mark_batch_processing", 0, NULL, FALSE)
    /\ calls' = calls + 1
    /\ UNCHANGED <<pc, permanent_failures, ingestRunVars, powerVars, dimVars, parseVars,
                   reparseVars, priceVars, stageVars,
                   retryVars>>

CallRetryFailedAsins ==
    /\ calls < MaxCalls
    /\ \E limit \in 1 .. NumASINs :
       \E selected \in FailedSelections(asin_staging, limit) :
            asin_staging' = retry_failed_asins(asin_staging, selected)
    /\ last_call' = Call("retry_failed_asins", 0, NULL, FALSE)
    /\ calls' = calls + 1
    /\ UNCHANGED <<pc, permanent_failures, ingestRunVars, powerVars, dimVars, parseVars,
                   reparseVars, priceVars, stageVars,
                   retryVars>>

(***************************************************************************)
(* ingest_staged_asins.main and ingest_single_asin, run by concurrent      *)
(* processes against the same tables.  Each database statement and each    *)
(* scraper call is one step of the process that makes it.                  *)
(***************************************************************************)
NumProcesses == 2
PROCESSES == 1 .. NumProcesses

NotStarted == [pc |-> "start", pending_asins |-> << >>, i |-> 0, recent_raw_data |-> FALSE]

RunArgs == [retry_failed : BOOLEAN, priority_only : BOOLEAN, batch_size : 1 .. NumASINs]

\* what scraper.fetch_product and the steps after it come to
FetchOutcomes ==
    {"forbidden", "exception", "unparsed", "filtered", "inserted", "insert_failed"}

\* the columns save_raw_scraper_data writes, and those the database fills
RAW_DATA_COLUMNS ==
    {"id", "created_at", "asin", "panel_id", "scraper_response", "scraper_version",
     "response_size_bytes", "processing_metadata"}

\* A row of raw_scraper_data is what its scraper_response comes to when it is
\* parsed: "unparsed" (parse_product_data returns None), "filtered" (a record
\* with a wattage below 30) or "parsed"; NoRawData when the ASIN has no row.
\* A "parsed" row without a panel is what is left when the panel was deleted.
NoRawData == "none"

\* recent_raw_data.get(key, {}): the column of the row, or the empty dict
raw_data_get(row, key) == IF key \in RAW_DATA_COLUMNS THEN row ELSE "{}"

\* parser.parse_product_data(raw_response) on the stored data and the steps
\* after it: the empty dict has no name and parses to None.  With stored raw
\* data of the last 24 hours no request is made.
StoredOutcomes(row) ==
    LET raw_response == raw_data_get(row, "raw_response")
    IN  CASE raw_response \in {"{}", "unparsed"} -> {"unparsed"}
          [] raw_response = "filtered" -> {"filtered"}
          [] OTHER -> {"inserted", "insert_failed"}

\* the row save_raw_scraper_data leaves for a response that was fetched
SavedRawData(row, fetch_outcome) ==
    IF row # NoRawData THEN row
    ELSE CASE fetch_outcome = "unparsed" -> "unparsed"
           [] fetch_outcome = "filtered" -> "filtered"
           [] fetch_outcome = "inserted" -> "parsed"
           [] OTHER -> row

FailureMessage(fetch_outcome) ==
    CASE fetch_outcome = "exception" -> "Exception during product fetch"
      [] fetch_outcome = "unparsed" -> "Failed to parse product data"
      [] fetch_outcome = "filtered" -> "Filtered: wattage_too_low"
      [] fetch_outcome = "insert_failed" -> "Failed to insert panel into database"
      [] OTHER -> NULL

\* the next round of "for i, staged_asin in enumerate(pending_asins)"
NextAsin(run) ==
    [run EXCEPT !.i = @ + 1,
                !.pc = IF run.i = Len(run.pending_asins) THEN "done" ELSE "lookup",
                !.recent_raw_data = FALSE]

\* "if args.retry_failed": retry_failed_asins, "if retried == 0: return 0"
RetryFailed(p) ==
    /\ ingest[p].pc = "start"
    /\ run_args[p].retry_failed
    /\ \E selected \in FailedSelections(asin_staging, run_args[p].batch_size) :
        /\ asin_staging' = retry_failed_asins(asin_staging, selected)
        /\ ingest' = [ingest EXCEPT ![p].pc =
                        IF Retried(asin_staging, selected) = {} THEN "done" ELSE "select"]
    /\ UNCHANGED <<pc, run_args, panel_asins, raw_scraper_data, api_calls, inserted, forbidden,
                   permanent_failures, managerCallVars, powerVars, dimVars, parseVars,
                   reparseVars, priceVars, stageVars,
                   retryVars>>

\* pending_asins = await asin_manager.get_pending_asins(...)
GetPendingAsins(p) ==
    /\ \/ ingest[p].pc = "select"
       \/ ingest[p].pc = "start" /\ ~run_args[p].retry_failed
    /\ \E pending_asins \in {get_pending_asins(asin_staging, run_args[p].batch_size,
                                               run_args[p].priority_only)} :
        ingest' = [ingest EXCEPT ![p].pending_asins = pending_asins,
                                 ![p].pc = IF pending_asins = << >> THEN "done" ELSE "mark"]
    /\ UNCHANGED <<pc, run_args, asin_staging, panel_asins, raw_scraper_data, api_calls,
                   inserted, forbidden, permanent_failures, managerCallVars, powerVars,
                   dimVars, parseVars, reparseVars, priceVars, stageVars,
                   retryVars>>

\* await asin_manager.mark_batch_processing(asin_list)
MarkBatchProcessing(p) ==
    /\ ingest[p].pc = "mark"
    /\ asin_staging' = mark_batch_processing(asin_staging, ingest[p].pending_asins)
    /\ ingest' = [ingest EXCEPT ![p].pc = "lookup", ![p].i = 1]
    /\ UNCHANGED <<pc, run_args, panel_asins, raw_scraper_data, api_calls, inserted, forbidden,
                   permanent_failures, managerCallVars, powerVars, dimVars, parseVars,
                   reparseVars, priceVars, stageVars,
                   retryVars>>

\* ingest_single_asin up to the request: get_panel_by_asin, check_recent_raw_data
IngestLookup(p) ==
    /\ ingest[p].pc = "lookup"
    /\ \E asin \in {ingest[p].pending_asins[ingest[p].i]} :
        IF asin \in panel_asins
        THEN /\ asin_staging' = mark_asin_failed(asin_staging, asin,
                                                 "Already exists in database", TRUE)
             /\ permanent_failures' =
                    permanent_failures \cup PermanentAfter(asin_staging, asin, TRUE)
             /\ ingest' = [ingest EXCEPT ![p] = NextAsin(@)]
        ELSE /\ ingest' = [ingest EXCEPT ![p].pc = "fetch",
                                         ![p].recent_raw_data =
                                                raw_scraper_data[asin] # NoRawData]
             /\ UNCHANGED <<asin_staging, permanent_failures>>
    /\ UNCHANGED <<pc, run_args, panel_asins, raw_scraper_data, api_calls, inserted, forbidden,
                   managerCallVars, powerVars, dimVars, parseVars, reparseVars, priceVars, stageVars,
                   retryVars>>

\* ingest_single_asin from the request on: fetch_product or the stored raw
\* data, parse, filter, add_new_panel, and the mark_ call of each way out
IngestFetch(p) ==
    /\ ingest[p].pc = "fetch"
    /\ \E asin \in {ingest[p].pending_asins[ingest[p].i]} :
       \E fetch_outcome \in IF ingest[p].recent_raw_data
                            THEN StoredOutcomes(raw_scraper_data[asin])
                            ELSE FetchOutcomes :
        /\ api_calls' = IF ingest[p].recent_raw_data THEN api_calls
                        ELSE [api_calls EXCEPT ![p] = @ \cup {asin}]
        /\ forbidden' = IF fetch_outcome = "forbidden" THEN forbidden \cup {<<p, asin>>}
                        ELSE forbidden
        /\ raw_scraper_data' =
                IF ingest[p].recent_raw_data THEN raw_scraper_data
                ELSE [raw_scraper_data EXCEPT
                        ![asin] = SavedRawData(raw_scraper_data[asin], fetch_outcome)]
        /\ panel_asins' = IF fetch_outcome = "inserted" THEN panel_asins \cup {asin}
                          ELSE panel_asins
        /\ inserted' = IF fetch_outcome = "inserted"
                       THEN [inserted EXCEPT ![p] = @ \cup {asin}] ELSE inserted
        /\ asin_staging' =
                CASE fetch_outcome = "forbidden" -> asin_staging
                  [] fetch_outcome = "inserted" -> mark_asin_completed(asin_staging, asin)
                  [] OTHER -> mark_asin_failed(asin_staging, asin,
                                               FailureMessage(fetch_outcome), TRUE)
        /\ permanent_failures' =
                IF fetch_outcome \in {"forbidden", "inserted"} THEN permanent_failures
                ELSE permanent_failures \cup PermanentAfter(asin_staging, asin, TRUE)
    /\ ingest' = [ingest EXCEPT ![p] = NextAsin(@)]
    /\ UNCHANGED <<pc, run_args, managerCallVars, powerVars, dimVars, parseVars,
                   reparseVars, priceVars, stageVars,
                   retryVars>>

IngestIdle ==
    /\ asin_staging = << >>
    /\ panel_asins = {}
    /\ raw_scraper_data = << >>
    /\ ingest = << >>
    /\ run_args = << >>
    /\ api_calls = << >>
    /\ inserted = << >>
    /\ forbidden = {}
    /\ permanent_failures = {}
    /\ last_call = NoCall
    /\ calls = 0

\* rows a queue holds before a run: staged, or failed in an earlier run
StagedRows ==
    {StagingRow("pending", 0, priority, NULL) : priority \in {0, 1}}
        \cup {StagingRow("failed", attempts, 0, "earlier failure") :
                attempts \in {0, DEFAULT_MAX_ATTEMPTS}}

(***************************************************************************)
(* update_prices.update_panel_price and update_panel_price_from_search     *)
(*                                                                         *)
(* Prices are in cents; updated_at counts the writes of "now()".           *)
(***************************************************************************)
PriceResult(success, old_price, new_price, error, unchanged) ==
    [success |-> success, old_price |-> old_price, new_price |-> new_price,
     error |-> error, unchanged |-> unchanged, raised |-> FALSE]

NoResult == PriceResult(FALSE, None, None, "", FALSE)

\* raise  # Re-raise to stop processing
Raised == [NoResult EXCEPT !.raised = TRUE]

price_decision_accept_zero(old_price, new_price) ==
    IF new_price = None THEN "no_price"
    ELSE IF old_price = new_price THEN "unchanged"
    ELSE "update"

\* "if new_price is None", "if new_price == 0", "if old_price == new_price"
price_decision(old_price, new_price) ==
    IF new_price = None THEN "no_price"
    ELSE IF new_price = 0 THEN "zero"
    ELSE IF old_price = new_price THEN "unchanged"
    ELSE "update"

\* SolarPanelDB.update_panel_timestamp
db_update_panel_timestamp(row) == [row EXCEPT !.updated_at = @ + 1]

\* SolarPanelDB.update_panel_price: the row, then the price_history insert
db_update_panel_price(row, new_price) ==
    [row EXCEPT !.price_usd = new_price, !.updated_at = @ + 1]

HistoryEntry(row, new_price, source) ==
    [old_price |-> row.price_usd, new_price |-> new_price, source |-> source]

DbCall(method, price) == [method |-> method, price |-> price]

\* what the branches after the fetch come to: the returned dict, the row,
\* the history and the calls made on db
price_update(row, history, old_price, new_price, source, db_ok, no_price_error) ==
    CASE price_decision(old_price, new_price) = "no_price" ->
            [result |-> PriceResult(FALSE, old_price, None, no_price_error, FALSE),
             row |-> row, history |-> history, calls |-> << >>]
      [] price_decision(old_price, new_price) = "zero" ->
            [result |-> PriceResult(FALSE, old_price, 0,
                                    "Price is $0 (product unavailable)", FALSE),
             row |-> row, history |-> history, calls |-> << >>]
      [] price_decision(old_price, new_price) = "unchanged" ->
            [result |-> PriceResult(TRUE, old_price, new_price, NULL, TRUE),
             row |-> IF db_ok THEN db_update_panel_timestamp(row) ELSE row,
             history |-> history,
             calls |-> <<DbCall("update_panel_timestamp", None)>>]
      [] OTHER ->
            [result |-> IF db_ok THEN PriceResult(TRUE, old_price, new_price, NULL, FALSE)
                        ELSE PriceResult(FALSE, old_price, new_price,
                                         "Database update failed", FALSE),
             row |-> IF db_ok THEN db_update_panel_price(row, new_price) ELSE row,
             history |-> IF db_ok
                         THEN Append(history, HistoryEntry(row, new_price, source))
                         ELSE history,
             calls |-> <<DbCall("update_panel_price", new_price)>>]

Untouched(row, history, result) ==
    [result |-> result, row |-> row, history |-> history, calls |-> << >>]

update_panel_price(panel, row, history, fetch, db_ok) ==
    IF ~panel.has_asin
    THEN Untouched(row, history,
                   PriceResult(FALSE, None, None, "No ASIN found for panel", FALSE))
    ELSE CASE fetch.kind = "forbidden" -> Untouched(row, history, Raised)
           [] fetch.kind = "exception" ->
                Untouched(row, history,
                          PriceResult(FALSE, panel.price_usd, None, "exception", FALSE))
           [] fetch.kind = "none" ->
                Untouched(row, history,
                          PriceResult(FALSE, panel.price_usd, None,
                                      "Failed to fetch product data", FALSE))
           [] fetch.kind = "unparsed" ->
                Untouched(row, history,
                          PriceResult(FALSE, panel.price_usd, None,
                                      "Failed to parse product data", FALSE))
           [] OTHER -> price_update(row, history, panel.price_usd, fetch.price_usd,
                                    "scraperapi", db_ok,
                                    "Price not available in fetched data")

update_panel_price_from_search(panel, row, history, new_price, db_ok) ==
    IF ~panel.has_asin
    THEN Untouched(row, history,
                   PriceResult(FALSE, None, None, "No ASIN found for panel", FALSE))
    ELSE price_update(row, history, panel.price_usd, new_price, "scraperapi_search",
                      db_ok, "ASIN not in search results")

PRICES == {8999, 9999}

\* price_usd of a stored panel: null, 0 of a listing ingested as
\* unavailable, or a price
StoredPrices == {None, 0} \cup PRICES

\* price_usd of parse_product_data, or asin_to_price.get(asin)
FetchedPrices == {None, 0} \cup PRICES

Fetches ==
    {[kind |-> k, price_usd |-> None] : k \in {"forbidden", "exception", "none", "unparsed"}}
        \cup {[kind |-> "parsed", price_usd |-> p] : p \in FetchedPrices}

PriceIdle ==
    /\ price_panel = [has_asin |-> FALSE, price_usd |-> None]
    /\ price_row = [price_usd |-> None, updated_at |-> 0]
    /\ price_history = << >>
    /\ price_fetch = [path |-> "none", kind |-> "none", price_usd |-> None, db_ok |-> FALSE]
    /\ price_result = NoResult
    /\ db_calls = << >>

UpdatePanelPrice ==
    /\ pc = "call"
    /\ price_fetch.path = "product"
    /\ \E done \in {update_panel_price(price_panel, price_row, price_history,
                                       price_fetch, price_fetch.db_ok)} :
        /\ price_result' = done.result
        /\ price_row' = done.row
        /\ price_history' = done.history
        /\ db_calls' = done.calls
    /\ pc' = "return"
    /\ UNCHANGED <<price_panel, price_fetch, powerVars, dimVars, parseVars, reparseVars,
                   ingestVars, stageVars, retryVars>>

UpdatePanelPriceFromSearch ==
    /\ pc = "call"
    /\ price_fetch.path = "search"
    /\ \E done \in {update_panel_price_from_search(price_panel, price_row, price_history,
                                                   price_fetch.price_usd,
                                                   price_fetch.db_ok)} :
        /\ price_result' = done.result
        /\ price_row' = done.row
        /\ price_history' = done.history
        /\ db_calls' = done.calls
    /\ pc' = "return"
    /\ UNCHANGED <<price_panel, price_fetch, powerVars, dimVars, parseVars, reparseVars,
                   ingestVars, stageVars, retryVars>>

(***************************************************************************)
(* asin_manager.ASINManager.stage_asin                                     *)
(*                                                                         *)
(* Table asin_staging is the sequence of its rows in insertion order.  A   *)
(* query that the database answers with an error raises in the client:     *)
(* db.select_panels, db.select_staging and db.insert say which queries of  *)
(* the call are answered.                                                  *)
(***************************************************************************)
StageRow(asin, status) == [asin |-> asin, status |-> status]

\* SolarPanelDB.asin_exists: False when the query raises
is_asin_in_database(panels, asin, db) == db.select_panels /\ asin \in panels

\* False when the query raises
is_asin_staged(staging, asin, db) ==
    db.select_staging /\ \E i \in 1 .. Len(staging) : staging[i].asin = asin

\* the insert of stage_asin: the row is added, or the exception handler
\* returns False
stage_insert(staging, asin, status, returned, db) ==
    IF db.insert
    THEN [rows |-> Append(staging, StageRow(asin, status)), returned |-> returned,
          inserted |-> TRUE]
    ELSE [rows |-> staging, returned |-> FALSE, inserted |-> FALSE]

stage_asin(staging, panels, asin, db) ==
    IF is_asin_in_database(panels, asin, db)
    THEN stage_insert(staging, asin, "duplicate", FALSE, db)
    ELSE IF is_asin_staged(staging, asin, db)
    THEN [rows |-> staging, returned |-> FALSE, inserted |-> FALSE]
    ELSE stage_insert(staging, asin, "pending", TRUE, db)

MaxStageRows == 3

DbAnswers == [select_panels : BOOLEAN, select_staging : BOOLEAN, insert : BOOLEAN]

NoStageCall == [asin |-> 0, was_staged |-> FALSE, answered |-> FALSE,
                returned |-> FALSE, inserted |-> FALSE]

StageIdle ==
    /\ stage_rows = << >>
    /\ stage_panels = {}
    /\ stage_last = NoStageCall

\* one stage_asin call of the caller
StageAsin ==
    /\ Len(stage_rows) < MaxStageRows
    /\ \E asin \in ASINS, db \in DbAnswers :
        \E done \in {stage_asin(stage_rows, stage_panels, asin, db)} :
            /\ stage_rows' = done.rows
            /\ stage_last' = [asin |-> asin,
                              was_staged |-> \E i \in 1 .. Len(stage_rows) :
                                                stage_rows[i].asin = asin,
                              answered |-> db.select_panels /\ db.select_staging,
                              returned |-> done.returned,
                              inserted |-> done.inserted]
    /\ UNCHANGED <<pc, stage_panels, powerVars, dimVars, parseVars, reparseVars, ingestVars,
                   priceVars, retryVars>>

\* ingest_single_asin of another script adds the panel of a staged ASIN
StagedPanelInserted ==
    /\ \E i \in 1 .. Len(stage_rows) :
        /\ stage_rows[i].asin \notin stage_panels
        /\ stage_panels' = stage_panels \cup {stage_rows[i].asin}
    /\ UNCHANGED <<pc, stage_rows, stage_last, powerVars, dimVars, parseVars, reparseVars,
                   ingestVars, priceVars, retryVars>>

(***************************************************************************)
(* error_handling.CircuitBreaker and RetryHandler.execute_with_retry       *)
(*                                                                         *)
(* Time is in seconds.  execute_with_retry is cut at its awaits: the       *)
(* check of the breaker that opens the call, then one step per invocation  *)
(* of func with the bookkeeping that follows it; the clock advances        *)
(* between the steps (asyncio.sleep, and the time func takes).  The        *)
(* invocations of a call are numbered from 1 and the exception or the      *)
(* result of invocation k is written k.                                    *)
(***************************************************************************)
failure_threshold == 5
recovery_timeout == 60

\* CircuitBreaker.__init__
CircuitBreaker == [failure_count |-> 0, last_failure_time |-> None, state |-> "CLOSED"]

can_execute(breaker, time) ==
    CASE breaker.state = "CLOSED" -> [allowed |-> TRUE, breaker |-> breaker]
      [] breaker.state = "OPEN" ->
            IF time - breaker.last_failure_time > recovery_timeout
            THEN [allowed |-> TRUE, breaker |-> [breaker EXCEPT !.state = "HALF_OPEN"]]
            ELSE [allowed |-> FALSE, breaker |-> breaker]
      [] breaker.state = "HALF_OPEN" -> [allowed |-> TRUE, breaker |-> breaker]
      [] OTHER -> [allowed |-> FALSE, breaker |-> breaker]

record_success(breaker) == [breaker EXCEPT !.failure_count = 0, !.state = "CLOSED"]

record_failure(breaker, time) ==
    [breaker EXCEPT !.failure_count = @ + 1,
                    !.last_failure_time = time,
                    !.state = IF breaker.failure_count + 1 >= failure_threshold
                              THEN "OPEN" ELSE @]

last_attempt_one_later(attempt, max_retries) == attempt = max_retries + 1

\* "for attempt in range(self.config.max_retries + 1)" with
\* "if attempt == self.config.max_retries: ... break"
last_attempt(attempt, max_retries) == attempt = max_retries

\* RetryConfig.__init__: max_retries=3
RetryConfig == [max_retries |-> 3]

\* --max-retries of the scripts
RetryConfigs == {[max_retries |-> 0], [max_retries |-> 1], RetryConfig}

NoRetry == [pc |-> "idle", attempt |-> 0, invocations |-> 0, failures |-> 0,
            last_exception |-> None, result |-> None, raised |-> None,
            refused |-> FALSE]

MaxRetryCalls == 3
TickSeconds == 30
MaxClock == 120

RetryIdle ==
    /\ circuit_breaker = CircuitBreaker
    /\ now = 0
    /\ config = RetryConfig
    /\ retry = NoRetry
    /\ retry_calls = 0

\* the call, up to the loop: "if not circuit_breaker.can_execute(): raise"
ExecuteWithRetry ==
    /\ retry.pc # "attempt"
    /\ retry_calls < MaxRetryCalls
    /\ \E check \in {can_execute(circuit_breaker, now)} :
        /\ circuit_breaker' = check.breaker
        /\ retry' = IF check.allowed
                    THEN [NoRetry EXCEPT !.pc = "attempt"]
                    ELSE [NoRetry EXCEPT !.pc = "raised", !.refused = TRUE]
    /\ retry_calls' = retry_calls + 1
    /\ UNCHANGED <<pc, now, config, powerVars, dimVars, parseVars, reparseVars, ingestVars,
                   priceVars, stageVars>>

\* one pass of the loop body: func returns or raises
InvokeFunc ==
    /\ retry.pc = "attempt"
    /\ \E succeeds \in BOOLEAN :
        IF succeeds
        THEN /\ circuit_breaker' = record_success(circuit_breaker)
             /\ retry' = [retry EXCEPT !.pc = "returned",
                                       !.invocations = @ + 1,
                                       !.result = retry.invocations + 1]
        ELSE /\ circuit_breaker' = record_failure(circuit_breaker, now)
             /\ retry' = IF last_attempt(retry.attempt, config.max_retries)
                         THEN [retry EXCEPT !.pc = "raised",
                                            !.invocations = @ + 1,
                                            !.failures = @ + 1,
                                            !.last_exception = retry.invocations + 1,
                                            !.raised = retry.invocations + 1]
                         ELSE [retry EXCEPT !.attempt = @ + 1,
                                            !.invocations = @ + 1,
                                            !.failures = @ + 1,
                                            !.last_exception = retry.invocations + 1]
    /\ UNCHANGED <<pc, now, config, retry_calls, powerVars, dimVars, parseVars, reparseVars,
                   ingestVars, priceVars, stageVars>>

\* time.time() advances
Tick ==
    /\ now < MaxClock
    /\ now' = now + TickSeconds
    /\ UNCHANGED <<pc, circuit_breaker, config, retry, retry_calls, powerVars, dimVars,
                   parseVars, reparseVars, ingestVars, priceVars, stageVars>>

(***************************************************************************)
(* Initial state and specifications                                        *)
(***************************************************************************)
InitPower ==
    /\ pc = "call"
    /\ power_string \in PowerStrings
    /\ power_result = None
    /\ DimIdle
    /\ ParseIdle
    /\ ReparseIdle
    /\ IngestIdle
    /\ PriceIdle
    /\ StageIdle
    /\ RetryIdle

NextPower == ParsePowerString
SpecPower == InitPower /\ [][NextPower]_vars

InitDim ==
    /\ pc = "call"
    /\ dim_string \in DimStrings
    /\ dim_result = NoDims
    /\ PowerIdle
    /\ ParseIdle
    /\ ReparseIdle
    /\ IngestIdle
    /\ PriceIdle
    /\ StageIdle
    /\ RetryIdle

NextDim == ParseDimensionString
SpecDim == InitDim /\ [][NextDim]_vars

InitParse ==
    /\ pc = "call"
    /\ api_response \in Listings
    /\ panel_data = NoRecord
    /\ extracted = NoExtraction
    /\ PowerIdle
    /\ DimIdle
    /\ ReparseIdle
    /\ IngestIdle
    /\ PriceIdle
    /\ StageIdle
    /\ RetryIdle

NextParse == ParseProductData
SpecParse == InitParse /\ [][NextParse]_vars

InitReparse ==
    /\ pc = "call"
    /\ args \in Switches
    /\ rows \in RowSequences
    /\ row_index = 0
    /\ \E p \in StoredPanels : solar_panels = <<p, OtherPanel>>
    /\ user_flags = StoredFlags
    /\ update_data = NoUpdate
    /\ override_mismatches = << >>
    /\ outcome = "none"
    /\ summary = build_summary
    /\ PowerIdle
    /\ DimIdle
    /\ ParseIdle
    /\ IngestIdle
    /\ PriceIdle
    /\ StageIdle
    /\ RetryIdle

NextReparse == FetchRawRows \/ ReparseRow
SpecReparse == InitReparse /\ [][NextReparse]_vars

InitManager ==
    /\ pc = "call"
    /\ asin_staging \in [ASINS -> StagedRows]
    /\ panel_asins = {}
    /\ raw_scraper_data = << >>
    /\ ingest = << >>
    /\ run_args = << >>
    /\ api_calls = << >>
    /\ inserted = << >>
    /\ forbidden = {}
    /\ permanent_failures = {}
    /\ last_call = NoCall
    /\ calls = 0
    /\ PowerIdle
    /\ DimIdle
    /\ ParseIdle
    /\ ReparseIdle
    /\ PriceIdle
    /\ StageIdle
    /\ RetryIdle

NextManager ==
    \/ CallMarkAsinProcessing
    \/ CallMarkAsinCompleted
    \/ CallMarkAsinFailed
    \/ CallMarkBatchProcessing
    \/ CallRetryFailedAsins
SpecManager == InitManager /\ [][NextManager]_vars

InitIngest ==
    /\ pc = "call"
    /\ asin_staging \in [ASINS -> StagedRows]
    /\ panel_asins = {}
    /\ raw_scraper_data \in [ASINS -> {NoRawData, "parsed"}]
    /\ ingest = [p \in PROCESSES |-> NotStarted]
    /\ run_args \in [PROCESSES -> RunArgs]
    /\ api_calls = [p \in PROCESSES |-> {}]
    /\ inserted = [p \in PROCESSES |-> {}]
    /\ forbidden = {}
    /\ permanent_failures = {}
    /\ last_call = NoCall
    /\ calls = 0
    /\ PowerIdle
    /\ DimIdle
    /\ ParseIdle
    /\ ReparseIdle
    /\ PriceIdle
    /\ StageIdle
    /\ RetryIdle

NextIngest ==
    \E p \in PROCESSES :
        \/ RetryFailed(p)
        \/ GetPendingAsins(p)
        \/ MarkBatchProcessing(p)
        \/ IngestLookup(p)
        \/ IngestFetch(p)
SpecIngest == InitIngest /\ [][NextIngest]_vars

InitPrices ==
    /\ pc = "call"
    /\ \E has_asin \in BOOLEAN, price_usd \in StoredPrices :
        /\ price_panel = [has_asin |-> has_asin, price_usd |-> price_usd]
        /\ price_row = [price_usd |-> price_usd, updated_at |-> 0]
    /\ price_history = << >>
    /\ \E db_ok \in BOOLEAN :
        \/ \E fetch \in Fetches :
            price_fetch = [path |-> "product", kind |-> fetch.kind,
                           price_usd |-> fetch.price_usd, db_ok |-> db_ok]
        \/ \E price_usd \in FetchedPrices :
            price_fetch = [path |-> "search", kind |-> "parsed",
                           price_usd |-> price_usd, db_ok |-> db_ok]
    /\ price_result = NoResult
    /\ db_calls = << >>
    /\ PowerIdle
    /\ DimIdle
    /\ ParseIdle
    /\ ReparseIdle
    /\ IngestIdle
    /\ StageIdle
    /\ RetryIdle

NextPrices == UpdatePanelPrice \/ UpdatePanelPriceFromSearch
SpecPrices == InitPrices /\ [][NextPrices]_vars

InitStage ==
    /\ pc = "call"
    /\ stage_rows = << >>
    /\ stage_panels \in SUBSET ASINS
    /\ stage_last = NoStageCall
    /\ PowerIdle
    /\ DimIdle
    /\ ParseIdle
    /\ ReparseIdle
    /\ IngestIdle
    /\ PriceIdle
    /\ RetryIdle

NextStage == StageAsin \/ StagedPanelInserted
SpecStage == InitStage /\ [][NextStage]_vars

InitRetry ==
    /\ pc = "call"
    /\ circuit_breaker = CircuitBreaker
    /\ now = 0
    /\ config \in RetryConfigs
    /\ retry = NoRetry
    /\ retry_calls = 0
    /\ PowerIdle
    /\ DimIdle
    /\ ParseIdle
    /\ ReparseIdle
    /\ IngestIdle
    /\ PriceIdle
    /\ StageIdle

NextRetry == ExecuteWithRetry \/ InvokeFunc \/ Tick
SpecRetry == InitRetry /\ [][NextRetry]_vars

\* func returns or raises in the end
SpecRetryFair == SpecRetry /\ WF_vars(InvokeFunc)

(***************************************************************************)
(* C10: parse_power_string returns None for every negative value, None     *)
(* when the value rounded half-up exceeds 2000, and otherwise the value    *)
(* rounded half-up (0.5 away from zero), an integer in 0..2000.            *)
(***************************************************************************)
RoundHalfAwayFromZero(v10) ==
    IF v10 >= 0 THEN (v10 + 5) \div 10 ELSE 0 - ((Abs(v10) + 5) \div 10)

C10_PowerRounding ==
    (pc = "return" /\ power_string.has_number) =>
        LET v == numeric_value(power_string)
        IN  IF v < 0 THEN power_result = None
            ELSE IF RoundHalfAwayFromZero(v) > 2000 THEN power_result = None
            ELSE /\ power_result = RoundHalfAwayFromZero(v)
                 /\ power_result \in 0 .. 2000

(***************************************************************************)
(* C8: for a string of bare numbers with one trailing unit or no unit,     *)
(* every reordering of the numbers gives the same result; a non-null       *)
(* result is the two largest converted positive values, length first; the  *)
(* result is null when fewer than two converted values are positive.       *)
(* C8_AnyNumberCount states it for every such string, and                  *)
(* C8_DimensionPermutation for the strings of at most three numbers, the   *)
(* formats the parser has a pattern for.                                   *)
(***************************************************************************)
Reordered(d, p) == [d EXCEPT !.nums = [i \in DOMAIN d.nums |-> d.nums[p[i]]]]

UsedUnit(d) == IF d.unit # NoUnit THEN d.unit ELSE guess_unit_from_values(d.nums)

PositiveConverted(d) ==
    SelectSeq(ConvertAll(d.nums, UsedUnit(d)), IsPositive)

PermutationInvariant ==
    /\ \A p \in Permutations(DOMAIN dim_string.nums) :
            parse_dimension_string(Reordered(dim_string, p)) = dim_result
    /\ dim_result # NoDims =>
            LET pos == PositiveConverted(dim_string)
            IN  /\ Len(pos) >= 2
                /\ dim_result[1] >= dim_result[2]
                /\ dim_result[1] = SeqMax(pos)
                /\ \E i \in DOMAIN pos :
                      /\ pos[i] = dim_result[1]
                      /\ dim_result[2] = SeqMax(RemoveAt(pos, i))
    /\ Len(PositiveConverted(dim_string)) < 2 => dim_result = NoDims

C8_AnyNumberCount ==
    (pc = "return" /\ dim_string.labeled = << >> /\ Len(dim_string.nums) >= 1) =>
        PermutationInvariant

C8_DimensionPermutation ==
    (pc = "return" /\ dim_string.labeled = << >> /\ Len(dim_string.nums) \in 1 .. 3) =>
        PermutationInvariant

C8_Witness ==
    /\ pc = "return"
    /\ dim_string.labeled = << >>
    /\ Len(dim_string.nums) = 3
    /\ dim_string.nums[1] < dim_string.nums[2]
    /\ dim_string.nums[3] > dim_string.nums[2]
    /\ dim_string.unit = "in"
    /\ dim_result # NoDims
    /\ dim_result[1] = to_cm(dim_string.nums[3], "in")

(***************************************************************************)
(* C2: parse_product_data returns None if and only if one of the three     *)
(* hard-required fields is missing: the name, the manufacturer (the brand  *)
(* after clean-up, else the spec-table Brand) or the asin (from the        *)
(* response, else the spec-table ASIN).  Whenever the three are present a  *)
(* record is returned, whatever images, availability_status, pricing and   *)
(* a null brand key are.                                                   *)
(***************************************************************************)
HasRequired(r) ==
    LET brand == IF r.brand = NULL THEN "" ELSE clean_brand(r.brand)
        fallback == IF r.info_null \/ r.info_brand = ABSENT THEN "" ELSE r.info_brand
        manufacturer == IF brand # "" THEN brand ELSE fallback
        asin == IF ~Falsy(r.asin) THEN r.asin
                ELSE IF r.info_null THEN ABSENT ELSE r.info_asin
    IN  /\ ~Falsy(r.name)
        /\ manufacturer \notin {"", "Unknown"}
        /\ ~Falsy(asin)

C2_NullIffRequiredMissing ==
    pc = "return" => (panel_data.ok <=> HasRequired(api_response))

(***************************************************************************)
(* C3: in a returned record missing_fields holds "wattage" exactly when    *)
(* wattage is null, "dimensions" exactly when length_cm is null, "weight"  *)
(* exactly when weight_kg is null and "price" exactly when price_usd is    *)
(* null, each at most once, and nothing else (never piece_count, voltage). *)
(***************************************************************************)
Occurrences(seq, x) == Cardinality({i \in DOMAIN seq : seq[i] = x})

C3_MissingFieldsExact ==
    (pc = "return" /\ panel_data.ok) =>
        LET m == panel_data.missing_fields
            Once(name, null) == Occurrences(m, name) = (IF null THEN 1 ELSE 0)
        IN  /\ Once("wattage", panel_data.wattage = None)
            /\ Once("dimensions", panel_data.length_cm = None)
            /\ Once("weight", panel_data.weight_kg = None)
            /\ Once("price", panel_data.price_usd = None)
            /\ \A i \in DOMAIN m : m[i] \in {"wattage", "dimensions", "weight", "price"}

\* a record with wattage and price, without weight, dimensions, voltage, pieces
C3_Witness ==
    /\ pc = "return"
    /\ panel_data.ok
    /\ panel_data.wattage # None
    /\ panel_data.price_usd = 29999
    /\ panel_data.voltage = None
    /\ panel_data.piece_count = None
    /\ panel_data.missing_fields = <<"dimensions", "weight">>

(***************************************************************************)
(* C5: a returned record has wattage null or in 5..2000, piece_count null  *)
(* or in 1..50, voltage null or in 1..200 V, weight_kg null or in          *)
(* 0.1..100 kg, and length_cm and width_cm both null or both set with      *)
(* 0 < width_cm <= length_cm <= 400.                                       *)
(***************************************************************************)
C5_PhysicalRanges ==
    (pc = "return" /\ panel_data.ok) =>
        /\ panel_data.wattage = None \/ panel_data.wattage \in 5 .. 2000
        /\ panel_data.piece_count = None \/ panel_data.piece_count \in 1 .. 50
        /\ panel_data.voltage = None \/ panel_data.voltage \in 100 .. 20000
        /\ panel_data.weight_kg = None \/ panel_data.weight_kg \in 10 .. 10000
        /\ \/ panel_data.length_cm = None /\ panel_data.width_cm = None
           \/ /\ panel_data.length_cm # None /\ panel_data.width_cm # None
              /\ 0 < panel_data.width_cm
              /\ panel_data.width_cm <= panel_data.length_cm
              /\ panel_data.length_cm <= 40000

\* an out-of-range candidate outranked the one that was selected
C5_Witness ==
    /\ pc = "return"
    /\ panel_data.ok
    /\ panel_data.wattage = 100
    /\ \E i \in DOMAIN extracted.wattage_candidates :
            /\ extracted.wattage_candidates[i].value < 5
            /\ extracted.wattage_candidates[i].confidence
                    > panel_data.extraction_evidence.wattage.selected[1].confidence

(***************************************************************************)
(* C4: for each optional field, the selected value is non-null exactly     *)
(* when some candidate passes the field's range validator with confidence  *)
(* at least the field's threshold; a non-null value is the value of a      *)
(* range-valid candidate that no range-valid candidate precedes in the     *)
(* order (confidence descending, source name ascending).                   *)
(***************************************************************************)
SelectsBest(candidates, threshold, validator(_), value, null) ==
    /\ value # null <=>
            \E i \in DOMAIN candidates :
                validator(candidates[i].value) /\ candidates[i].confidence >= threshold
    /\ value # null =>
            \E i \in DOMAIN candidates :
                /\ validator(candidates[i].value)
                /\ candidates[i].value = value
                /\ \A j \in DOMAIN candidates :
                        validator(candidates[j].value) =>
                            \/ candidates[j].confidence < candidates[i].confidence
                            \/ /\ candidates[j].confidence = candidates[i].confidence
                               /\ SourceRank(candidates[j].source)
                                    >= SourceRank(candidates[i].source)

RecordDims ==
    IF panel_data.length_cm = None THEN NoDims
    ELSE <<panel_data.length_cm, panel_data.width_cm>>

C4_SelectField ==
    (pc = "return" /\ panel_data.ok) =>
        /\ SelectsBest(extracted.wattage_candidates, 60,
                       LAMBDA v : 5 <= v /\ v <= 2000, panel_data.wattage, None)
        /\ SelectsBest(extracted.dimensions_candidates, 60,
                       LAMBDA v : 0 < v[2] /\ v[2] <= v[1] /\ v[1] <= 40000,
                       RecordDims, NoDims)
        /\ SelectsBest(extracted.weight_candidates, 65,
                       LAMBDA v : 10 <= v /\ v <= 10000, panel_data.weight_kg, None)
        /\ SelectsBest(extracted.voltage_candidates, 55,
                       LAMBDA v : 100 <= v /\ v <= 20000, panel_data.voltage, None)
        /\ SelectsBest(extracted.piece_count_candidates, 60,
                       LAMBDA v : 1 <= v /\ v <= 50, panel_data.piece_count, None)

\* the spec table offers 200 W at 0.85, the title 100 W boosted above it
C4_Witness ==
    /\ pc = "return"
    /\ panel_data.ok
    /\ panel_data.wattage = 100
    /\ \E i, j \in DOMAIN extracted.wattage_candidates :
            /\ extracted.wattage_candidates[i].value = 200
            /\ extracted.wattage_candidates[i].source.base = "product_information"
            /\ extracted.wattage_candidates[j].value = 100
            /\ extracted.wattage_candidates[j].confidence
                    > extracted.wattage_candidates[i].confidence

(***************************************************************************)
(* C6: consensus boosting never lowers a confidence: every candidate's     *)
(* confidence after _boost_consensus is at least its confidence before,    *)
(* and a candidate that agrees within tolerance with another candidate     *)
(* ends strictly higher unless it was already at the 0.99 cap.             *)
(***************************************************************************)
BoostMonotone(before, after, Agrees(_, _)) ==
    \A i \in DOMAIN before :
        /\ after[i].confidence >= before[i].confidence
        /\ (/\ \E j \in DOMAIN before : j # i /\ Agrees(before[i].value, before[j].value)
            /\ before[i].confidence < 99)
                => after[i].confidence > before[i].confidence

C6_BoostNeverLowers ==
    (pc = "return" /\ reaches_extraction(api_response)) =>
        /\ BoostMonotone(extracted.wattage_before, extracted.wattage_candidates, AgreeInt)
        /\ BoostMonotone(dimensions_before_boost(api_response),
                         extracted.dimensions_candidates, AgreeTuple)
        /\ BoostMonotone(weight_before_boost(api_response),
                         extracted.weight_candidates, AgreeFloat)
        /\ BoostMonotone(voltage_before_boost(api_response),
                         extracted.voltage_candidates, AgreeFloat)
        /\ BoostMonotone(piece_count_before_boost(api_response,
                                                  extracted.wattage_candidates),
                         extracted.piece_count_candidates, AgreeInt)

(***************************************************************************)
(* C7: a math_confirmed piece_count candidate has a confidence at least    *)
(* that of the per-unit wattage candidate and at least that of the total   *)
(* wattage candidate that produced it.                                     *)
(***************************************************************************)
C7_MathConfidence ==
    pc = "return" =>
        \A k \in DOMAIN extracted.math_confirmed :
            LET m == extracted.math_confirmed[k]
            IN  /\ m.candidate.confidence
                    >= extracted.wattage_candidates[m.per_panel].confidence
                /\ m.candidate.confidence
                    >= extracted.wattage_candidates[m.total].confidence

(***************************************************************************)
(* C1: a target field listed in manual_overrides or in                     *)
(* user_verified_overrides of a stored panel is never in the update map    *)
(* run_reparse stages or writes for a row of that panel, whatever the      *)
(* switches are, and its stored value is the same after every step of the  *)
(* run as before it.                                                       *)
(***************************************************************************)
Overridden(panel) ==
    (panel.manual_overrides \cup panel.user_verified_overrides) \cap TargetFields

C1_ProtectedFieldsKept ==
    [][\A id \in DOMAIN solar_panels :
          \A f \in Overridden(solar_panels[id]) :
              /\ solar_panels'[id][f] = solar_panels[id][f]
              /\ (pc = "loop" /\ rows[row_index].panel_id = id)
                    => f \notin DOMAIN update_data'.fields]_vars

\* an update was written for a panel whose protected wattage the raw response
\* contradicts
C1_Witness ==
    /\ outcome = "applied"
    /\ args.apply
    /\ rows[row_index - 1].panel_id = 1
    /\ "wattage" \in Overridden(solar_panels[1])
    /\ panel_data.wattage # None
    /\ solar_panels[1].wattage # panel_data.wattage
    /\ "weight_kg" \in DOMAIN update_data.fields

(***************************************************************************)
(* C11: for a row that run_reparse parsed and for every protected target   *)
(* field of its panel, exactly one tally is recorded: override_unparsed    *)
(* when the new value is null, override_confirmed when it equals the       *)
(* stored value within 0.01, override_mismatch otherwise, and a mismatch   *)
(* comes with one report carrying the stored and the proposed value and    *)
(* the selected candidate (confidence, source) of the field's evidence.    *)
(* C11_EveryRun states it for every run; C11_OverrideOutcome for the runs  *)
(* with check_overrides or override_mismatch_only, the runs in which       *)
(* register_override_check does not return at once.                        *)
(***************************************************************************)
RowReparsed ==
    /\ pc = "loop"
    /\ outcome' \in {"skipped_no_mismatch", "skipped_no_change", "planned", "applied"}

Tallies == <<"override_confirmed", "override_unparsed", "override_mismatch">>

ExpectedTally(stored, new, exact) ==
    IF new = None THEN "override_unparsed"
    ELSE IF stored # None /\ Abs(stored - new) <= (IF exact THEN 0 ELSE 1)
    THEN "override_confirmed"
    ELSE "override_mismatch"

EvidenceOf(record, f) ==
    CASE f \in {"length_cm", "width_cm"} -> record.extraction_evidence.dimensions
      [] f = "weight_kg" -> record.extraction_evidence.weight
      [] f = "wattage" -> record.extraction_evidence.wattage
      [] f = "piece_count" -> record.extraction_evidence.piece_count
      [] f = "voltage" -> record.extraction_evidence.voltage

OverrideOutcomeRecorded ==
    LET id == rows[row_index].panel_id
        panel == solar_panels[id]
    IN  \A f \in Overridden(panel) :
            LET expected == ExpectedTally(panel[f], panel_data'[f],
                                          f \in {"wattage", "piece_count"})
                reports == {i \in DOMAIN override_mismatches' :
                                override_mismatches'[i].field = f}
            IN  /\ \A i \in DOMAIN Tallies :
                      summary'[Tallies[i]][f] - summary[Tallies[i]][f]
                          = (IF Tallies[i] = expected THEN 1 ELSE 0)
                /\ Cardinality(reports) = (IF expected = "override_mismatch" THEN 1 ELSE 0)
                /\ \A i \in reports :
                      /\ override_mismatches'[i].current = panel[f]
                      /\ override_mismatches'[i].proposed = panel_data'[f]
                      /\ override_mismatches'[i].selected
                            = EvidenceOf(panel_data', f).selected
                      /\ Len(override_mismatches'[i].selected) = 1

C11_EveryRun == [][RowReparsed => OverrideOutcomeRecorded]_vars

C11_OverrideOutcome ==
    [][(RowReparsed /\ (args.check_overrides \/ args.override_mismatch_only))
            => OverrideOutcomeRecorded]_vars

\* a confirmed wattage in one row, a mismatching wattage in the next
C11_Witness ==
    /\ pc = "return"
    /\ args.check_overrides
    /\ summary.override_confirmed["wattage"] = 1
    /\ summary.override_mismatch["wattage"] = 1
    /\ Len(override_mismatches) >= 1
    /\ override_mismatches[1].field = "wattage"
    /\ override_mismatches[1].selected # << >>

(***************************************************************************)
(* C12: for a row that run_reparse parsed, an unprotected target field     *)
(* whose newly parsed value differs from the stored value by more than     *)
(* 0.01 (length_cm and width_cm as a pair) is in the update map with the   *)
(* new value, and its missing-field key (wattage, weight, dimensions) is   *)
(* cleared from the missing_fields the update carries.                     *)
(* C12_EveryUnprotected states it for every unprotected field and every    *)
(* new value; C12_StagedUpdate for a new value that is not null (both of   *)
(* the pair) and, for length_cm and width_cm, when neither is protected.   *)
(***************************************************************************)
BeyondTolerance(stored, new, exact) ==
    IF stored = None \/ new = None THEN stored # new
    ELSE Abs(stored - new) > (IF exact THEN 0 ELSE 1)

FieldDiffers(panel, record, f) ==
    IF f \in {"length_cm", "width_cm"}
    THEN \/ BeyondTolerance(panel.length_cm, record.length_cm, FALSE)
         \/ BeyondTolerance(panel.width_cm, record.width_cm, FALSE)
    ELSE BeyondTolerance(panel[f], record[f], f \in {"wattage", "piece_count"})

MissingKeyOf(f) ==
    CASE f = "wattage" -> "wattage"
      [] f = "weight_kg" -> "weight"
      [] f \in {"length_cm", "width_cm"} -> "dimensions"
      [] OTHER -> "none"

UpdateStaged(panel, f) ==
    /\ f \in DOMAIN update_data'.fields
    /\ update_data'.fields[f] = panel_data'[f]
    /\ outcome' \in {"planned", "applied"} =>
          LET after == IF update_data'.missing_fields.present
                       THEN update_data'.missing_fields.value
                       ELSE panel.missing_fields
          IN  \A i \in DOMAIN after : after[i] # MissingKeyOf(f)

HasNewValue(panel, record, f) ==
    IF f \in {"length_cm", "width_cm"}
    THEN /\ record.length_cm # None /\ record.width_cm # None
         /\ {"length_cm", "width_cm"} \cap Overridden(panel) = {}
    ELSE record[f] # None

C12_EveryUnprotected ==
    [][RowReparsed =>
        LET panel == solar_panels[rows[row_index].panel_id]
        IN  \A f \in TargetFields \ Overridden(panel) :
                FieldDiffers(panel, panel_data', f) => UpdateStaged(panel, f)]_vars

C12_StagedUpdate ==
    [][RowReparsed =>
        LET panel == solar_panels[rows[row_index].panel_id]
        IN  \A f \in TargetFields \ Overridden(panel) :
                (FieldDiffers(panel, panel_data', f) /\ HasNewValue(panel, panel_data', f))
                    => UpdateStaged(panel, f)]_vars

\* a written update that fills the wattage and the dimensions of a panel that
\* had none, and clears their keys
C12_Witness ==
    /\ outcome = "applied"
    /\ {"wattage", "length_cm", "width_cm"} \subseteq DOMAIN update_data.fields
    /\ update_data.fields["wattage"] = panel_data.wattage
    /\ update_data.missing_fields.present
    /\ update_data.missing_fields.value = <<"price">>

(***************************************************************************)
(* C13: run_reparse writes only in apply mode.  Without apply no stored    *)
(* panel and no flag changes in any step.  With apply, a flag changes only *)
(* in the iteration that wrote a non-empty update to the flag's panel (the *)
(* write precedes the resolution inside the iteration), it was pending     *)
(* and becomes resolved, and a panel changes only by the update map of     *)
(* the iteration of one of its rows.                                       *)
(***************************************************************************)
ChangedFlags == {i \in DOMAIN user_flags : user_flags'[i] # user_flags[i]}

ChangedPanels == {id \in DOMAIN solar_panels : solar_panels'[id] # solar_panels[id]}

UpdateWritten(id) ==
    /\ pc = "loop"
    /\ rows[row_index].panel_id = id
    /\ outcome' = "applied"
    /\ DOMAIN update_data'.fields # {} \/ update_data'.missing_fields.present
    /\ \A f \in DOMAIN update_data'.fields :
            solar_panels'[id][f] = update_data'.fields[f]
    /\ update_data'.missing_fields.present =>
            solar_panels'[id].missing_fields = update_data'.missing_fields.value

C13_WritesOnlyInApplyMode ==
    [][/\ DOMAIN solar_panels' = DOMAIN solar_panels
       /\ DOMAIN user_flags' = DOMAIN user_flags
       /\ ~args.apply => (ChangedPanels = {} /\ ChangedFlags = {})
       /\ \A id \in ChangedPanels : UpdateWritten(id)
       /\ \A i \in ChangedFlags :
            /\ UpdateWritten(user_flags[i].panel_id)
            /\ user_flags[i].status = "pending"
            /\ user_flags'[i] = [user_flags[i] EXCEPT !.status = "resolved"]]_vars

\* a run in apply mode that wrote an update and resolved a flag of the panel
C13_Witness ==
    /\ args.apply
    /\ outcome = "applied"
    /\ row_index >= 2
    /\ rows[row_index - 1].panel_id = 1
    /\ user_flags[1].status = "resolved"
    /\ "wattage" \in DOMAIN update_data.fields
    /\ solar_panels[1].wattage = update_data.fields["wattage"]

(***************************************************************************)
(* C14: in the iteration that applies an update to a panel, every pending  *)
(* flag of the panel whose flagged_fields meet the alias-expanded set of   *)
(* the updated fields (length_cm and width_cm give length_cm, width_cm     *)
(* and dimensions; weight_kg gives weight_kg and weight) becomes resolved, *)
(* and a pending flag disjoint from that set keeps its status.             *)
(* C14_EveryPendingFlag states it for every pending flag;                  *)
(* C14_FlagsResolved leaves out the flags of type deletion_recommendation, *)
(* which stay as they are.                                                 *)
(***************************************************************************)
AliasExpanded(fields) ==
    fields
        \cup (IF fields \cap {"length_cm", "width_cm"} # {}
              THEN {"length_cm", "width_cm", "dimensions"} ELSE {})
        \cup (IF "weight_kg" \in fields THEN {"weight_kg", "weight"} ELSE {})

PendingFlagsOf(id) ==
    {i \in DOMAIN user_flags :
        user_flags[i].panel_id = id /\ user_flags[i].status = "pending"}

FlagsFollowUpdate(Exempt(_)) ==
    (pc = "loop" /\ outcome' = "applied") =>
        LET updated == AliasExpanded(DOMAIN update_data'.fields)
        IN  \A i \in PendingFlagsOf(rows[row_index].panel_id) :
                IF user_flags[i].flagged_fields \cap updated # {} /\ ~Exempt(user_flags[i])
                THEN user_flags'[i].status = "resolved"
                ELSE user_flags'[i] = user_flags[i]

C14_EveryPendingFlag == [][FlagsFollowUpdate(LAMBDA flag : FALSE)]_vars

C14_FlagsResolved ==
    [][FlagsFollowUpdate(LAMBDA flag : flag.flag_type = "deletion_recommendation")]_vars

\* new dimensions resolved the flag on wattage and dimensions; the deletion
\* recommendation and the flag on the price are still pending
C14_Witness ==
    /\ outcome = "applied"
    /\ row_index >= 2
    /\ rows[row_index - 1].panel_id = 1
    /\ "length_cm" \in DOMAIN update_data.fields
    /\ "wattage" \notin DOMAIN update_data.fields
    /\ user_flags[1].status = "resolved"
    /\ user_flags[2].status = "pending"
    /\ user_flags[3].status = "pending"

(***************************************************************************)
(* C15: a candidate that the field's range validator rejects during the    *)
(* selection (its value is out of range and no candidate in range precedes *)
(* it in the order the selection walks) is in                              *)
(* extraction_evidence[field].candidates of the returned record, with its  *)
(* value and its source.  C15_AnyNumberOfCandidates states it for every    *)
(* rejected candidate; C15_RejectedVisible for the rejected candidates     *)
(* that fewer than three candidates of the field precede in the order      *)
(* (confidence descending, source name ascending, then position), which    *)
(* are all of them when the field has at most three candidates.            *)
(***************************************************************************)
Preceding(candidates, i) ==
    {k \in DOMAIN candidates :
        \/ candidates[k].confidence > candidates[i].confidence
        \/ /\ candidates[k].confidence = candidates[i].confidence
           /\ \/ SourceRank(candidates[k].source) < SourceRank(candidates[i].source)
              \/ /\ SourceRank(candidates[k].source) = SourceRank(candidates[i].source)
                 /\ k < i}

RejectedVisible(candidates, evidence, valid(_), limited) ==
    \A i \in DOMAIN candidates :
        (/\ ~valid(candidates[i].value)
         /\ \A k \in Preceding(candidates, i) : ~valid(candidates[k].value)
         /\ limited => Cardinality(Preceding(candidates, i)) < 3)
            => \E j \in DOMAIN evidence.candidates :
                    /\ evidence.candidates[j].value = candidates[i].value
                    /\ evidence.candidates[j].source = candidates[i].source

RejectedVisibleInRecord(limited) ==
    /\ RejectedVisible(extracted.wattage_candidates,
                       panel_data.extraction_evidence.wattage,
                       LAMBDA v : 5 <= v /\ v <= 2000, limited)
    /\ RejectedVisible(extracted.dimensions_candidates,
                       panel_data.extraction_evidence.dimensions,
                       LAMBDA v : 0 < v[2] /\ v[2] <= v[1] /\ v[1] <= 40000, limited)
    /\ RejectedVisible(extracted.weight_candidates,
                       panel_data.extraction_evidence.weight,
                       LAMBDA v : 10 <= v /\ v <= 10000, limited)
    /\ RejectedVisible(extracted.voltage_candidates,
                       panel_data.extraction_evidence.voltage,
                       LAMBDA v : 100 <= v /\ v <= 20000, limited)
    /\ RejectedVisible(extracted.piece_count_candidates,
                       panel_data.extraction_evidence.piece_count,
                       LAMBDA v : 1 <= v /\ v <= 50, limited)

C15_AnyNumberOfCandidates ==
    (pc = "return" /\ panel_data.ok) => RejectedVisibleInRecord(FALSE)

C15_RejectedVisible ==
    (pc = "return" /\ panel_data.ok) => RejectedVisibleInRecord(TRUE)

\* three voltage candidates, all out of range, all three recorded
C15_Witness ==
    /\ pc = "return"
    /\ panel_data.ok
    /\ Len(extracted.voltage_candidates) = 3
    /\ \A i \in 1 .. 3 : ~validate_voltage(extracted.voltage_candidates[i].value)
    /\ Len(panel_data.extraction_evidence.voltage.candidates) = 3
    /\ panel_data.voltage = None

(***************************************************************************)
(* C16: marking the fetched batch 'processing' prevents double processing: *)
(* of two ingest processes that each run get_pending_asins, then           *)
(* mark_batch_processing, then ingest_single_asin for each ASIN of the     *)
(* batch (neither run with --retry-failed), no ASIN is requested from the  *)
(* scraper or inserted into solar_panels by both.                          *)
(***************************************************************************)
Ingested(p) == api_calls[p] \cup inserted[p]

C16_NoDoubleProcessing ==
    \A p \in DOMAIN ingest, q \in DOMAIN ingest :
        (p # q /\ ~run_args[p].retry_failed /\ ~run_args[q].retry_failed)
            => Ingested(p) \cap Ingested(q) = {}

(***************************************************************************)
(* C17: an ASIN whose request raised ScraperAPIForbiddenError during a     *)
(* batch run is not marked failed and has status 'pending' when the run    *)
(* has ended (stated for a run that no other process runs beside), so that *)
(* get_pending_asins of a later run selects it.                            *)
(***************************************************************************)
RanAlone(p) ==
    /\ ingest[p].pc = "done"
    /\ \A q \in DOMAIN ingest \ {p} : ingest[q].pc = "start"

C17_ForbiddenStaysPending ==
    \A p \in DOMAIN ingest :
        RanAlone(p) =>
            \A asin \in ASINS :
                <<p, asin>> \in forbidden => asin_staging[asin].status = "pending"

(***************************************************************************)
(* C18: an ASIN that mark_asin_failed(asin, ..., is_permanent=True) has    *)
(* set to 'failed' is never 'pending' or 'processing' again, whatever runs *)
(* follow (runs with --retry-failed included).                             *)
(***************************************************************************)
C18_PermanentNeverRetried ==
    \A asin \in permanent_failures :
        asin_staging[asin].status \notin {"pending", "processing"}

(***************************************************************************)
(* C19: a call mark_asin_failed(asin, error_message, is_permanent) on an   *)
(* existing staging row leaves the row 'failed' when is_permanent is true, *)
(* otherwise 'failed' when attempts >= max_attempts, otherwise 'pending';  *)
(* in all three cases error_message is the given message and attempts is   *)
(* as before.                                                              *)
(***************************************************************************)
MarkAsinFailedCalled ==
    /\ calls' = calls + 1
    /\ last_call'.op = "mark_asin_failed"
    /\ last_call'.asin \in DOMAIN asin_staging

MarkAsinFailedRule ==
    LET before == asin_staging[last_call'.asin]
        after == asin_staging'[last_call'.asin]
        is_permanent == last_call'.is_permanent
    IN  /\ is_permanent => after.status = "failed"
        /\ (~is_permanent /\ before.attempts >= before.max_attempts)
                => after.status = "failed"
        /\ (~is_permanent /\ before.attempts < before.max_attempts)
                => after.status = "pending"
        /\ after.error_message = last_call'.error_message
        /\ after.attempts = before.attempts

C19_MarkAsinFailedRule == [][MarkAsinFailedCalled => MarkAsinFailedRule]_vars

\* a transient failure of a row that has used up its attempts exactly
C19_Witness ==
    /\ last_call.op = "mark_asin_failed"
    /\ ~last_call.is_permanent
    /\ asin_staging[last_call.asin].attempts = asin_staging[last_call.asin].max_attempts
    /\ asin_staging[last_call.asin].status = "failed"
    /\ asin_staging[last_call.asin].error_message = last_call.error_message

(***************************************************************************)
(* C20: for a panel processed by update_panel_price or                     *)
(* update_panel_price_from_search, a fetched price of 0 leaves price_usd,  *)
(* updated_at and price_history as they were and the result reports        *)
(* failure; a fetched price equal to the stored price changes nothing but  *)
(* updated_at; and db.update_panel_price is called only with a new price   *)
(* that is > 0 and differs from the stored price.                          *)
(***************************************************************************)
PanelProcessed ==
    /\ pc = "return"
    /\ price_fetch.path \in {"product", "search"}
    /\ price_fetch.kind = "parsed"
    /\ price_panel.has_asin

StoredBefore == [price_usd |-> price_panel.price_usd, updated_at |-> 0]

C20_PriceUpdates ==
    /\ (PanelProcessed /\ price_fetch.price_usd = 0) =>
            /\ price_row = StoredBefore
            /\ price_history = << >>
            /\ ~price_result.success
    /\ (PanelProcessed /\ price_fetch.price_usd # None
            /\ price_fetch.price_usd = price_panel.price_usd) =>
            /\ price_row.price_usd = price_panel.price_usd
            /\ price_history = << >>
    /\ \A k \in DOMAIN db_calls :
            db_calls[k].method = "update_panel_price" =>
                /\ db_calls[k].price > 0
                /\ db_calls[k].price # price_panel.price_usd

\* a fetched price of 0 for a panel stored with a price: rejected
C20_Witness ==
    /\ PanelProcessed
    /\ price_fetch.price_usd = 0
    /\ price_panel.price_usd \in PRICES
    /\ price_result.error = "Price is $0 (product unavailable)"
    /\ db_calls = << >>


(***************************************************************************)
(* C21: after any sequence of stage_asin calls the asin_staging table      *)
(* holds at most one row per ASIN: a stage_asin call for an ASIN that      *)
(* already has a staging row returns False and inserts nothing, whether    *)
(* or not that ASIN also exists in solar_panels.                           *)
(***************************************************************************)
StagingRowsOf(asin) == {i \in 1 .. Len(stage_rows) : stage_rows[i].asin = asin}

C21_OneRowPerAsin ==
    /\ \A asin \in ASINS : Cardinality(StagingRowsOf(asin)) <= 1
    /\ (stage_last.was_staged /\ stage_last.answered) =>
            (~stage_last.returned /\ ~stage_last.inserted)


(***************************************************************************)
(* C26: while the circuit breaker is OPEN and its recovery_timeout has not *)
(* elapsed since the last failure, execute_with_retry never invokes the    *)
(* wrapped function, the remaining retry attempts of the call in which     *)
(* the breaker opened included.                                            *)
(***************************************************************************)
BreakerRefuses ==
    /\ circuit_breaker.state = "OPEN"
    /\ now - circuit_breaker.last_failure_time <= recovery_timeout

FuncInvoked == retry.pc = "attempt" /\ retry'.invocations = retry.invocations + 1

C26_NoInvocationWhileOpen == [][FuncInvoked => ~BreakerRefuses]_vars

(***************************************************************************)
(* C27: every execute_with_retry call terminates after at most             *)
(* max_retries + 1 invocations of the wrapped function: it returns the     *)
(* result of the first invocation that succeeds, with the breaker's        *)
(* failure_count reset to 0 and its state CLOSED, and when all             *)
(* max_retries + 1 invocations raise it re-raises the last exception,      *)
(* having recorded one breaker failure per failed invocation.              *)
(***************************************************************************)
RetryBounded == retry.invocations <= config.max_retries + 1

ReturnsFirstSuccess ==
    retry.pc = "returned" =>
        /\ retry.result = retry.invocations
        /\ retry.failures = retry.invocations - 1
        /\ circuit_breaker.failure_count = 0
        /\ circuit_breaker.state = "CLOSED"

RaisesLastException ==
    (retry.pc = "raised" /\ ~retry.refused) =>
        /\ retry.invocations = config.max_retries + 1
        /\ retry.failures = retry.invocations
        /\ retry.raised = retry.invocations

FailuresRecorded ==
    retry.pc = "attempt" => retry.failures = retry.invocations

C27_RetryTerminates ==
    /\ [](RetryBounded /\ ReturnsFirstSuccess /\ RaisesLastException /\ FailuresRecorded)
    /\ (retry.pc = "attempt") ~> (retry.pc \in {"returned", "raised"})

C27_Witness ==
    /\ retry.pc = "raised"
    /\ ~retry.refused
    /\ config.max_retries = 3
    /\ retry.invocations = 4
    /\ circuit_breaker.failure_count >= 4


(***************************************************************************)
(* C22: for every field's candidate list and every candidate c of it, with *)
(* g the number of candidates of the list (c included) whose value agrees  *)
(* with c's within 0.01, the confidence of c after _boost_consensus is     *)
(* min(0.99, old + min(0.15, 0.05 * (g - 1))) when g > 1 and the old       *)
(* confidence when g = 1, whatever the order of the list.                  *)
(***************************************************************************)
AgreeingWith(candidates, kind, i) ==
    {j \in DOMAIN candidates : Agree(kind, candidates[i].value, candidates[j].value)}

ConfidenceByAgreement(old, g) ==
    IF g > 1 THEN Min2(99, old + Min2(15, 5 * (g - 1))) ELSE old

BoostedByAgreement(before, after, kind) ==
    \A i \in DOMAIN before :
        after[i].confidence =
            ConfidenceByAgreement(before[i].confidence,
                                  Cardinality(AgreeingWith(before, kind, i)))

C22_BoostByAgreement ==
    pc = "return" =>
        /\ BoostedByAgreement(extracted.wattage_before, extracted.wattage_candidates, "int")
        /\ BoostedByAgreement(dimensions_before_boost(api_response),
                              extracted.dimensions_candidates, "tuple")
        /\ BoostedByAgreement(weight_before_boost(api_response),
                              extracted.weight_candidates, "float")
        /\ BoostedByAgreement(voltage_before_boost(api_response),
                              extracted.voltage_candidates, "float")
        /\ BoostedByAgreement(piece_count_before_boost(api_response,
                                                       extracted.wattage_candidates),
                              extracted.piece_count_candidates, "int")


(***************************************************************************)
(* C23: whenever build_math_confirmed_piece_count emits a candidate for a  *)
(* listing, its confidence is at least the confidence of every piece_count *)
(* candidate extract_piece_count produced for the same listing (after the  *)
(* consensus boost), so a math-confirmed count that is in range is the     *)
(* piece_count selected.                                                   *)
(***************************************************************************)
ExtractedPieceCandidates ==
    SubSeq(extracted.piece_count_candidates, 1,
           Len(extracted.piece_count_candidates) - Len(extracted.math_confirmed))

MathOutranks ==
    \A k \in DOMAIN extracted.math_confirmed :
        \A i \in DOMAIN ExtractedPieceCandidates :
            extracted.math_confirmed[k].candidate.confidence
                >= ExtractedPieceCandidates[i].confidence

ValidMathCounts ==
    {extracted.math_confirmed[k].candidate.value : k \in
        {j \in DOMAIN extracted.math_confirmed :
            validate_piece_count(extracted.math_confirmed[j].candidate.value)}}

MathSelected == ValidMathCounts # {} => panel_data.piece_count \in ValidMathCounts

C23_MathOutranks ==
    (pc = "return" /\ panel_data # NoRecord) => (MathOutranks /\ MathSelected)


(***************************************************************************)
(* C24: noise exclusion is local to the match: within one text source a    *)
(* wattage match is discarded if and only if a noise term lies within 30   *)
(* characters of that match; a noise term near one match never suppresses  *)
(* the candidate of another match of the same text whose own window is     *)
(* free of noise and whose value parses to a non-zero wattage.             *)
(***************************************************************************)
\* what the patterns match in a text: the first mention of each multi
\* pattern (re.search) and every mention the simple pattern finds
IsWattageMatch(text, i) ==
    SimpleMatches(text[i]) \/ FirstMention(text, text[i].pattern) = i

MatchWatts(m) == IF m.pattern = "simple" THEN SimpleWatts(m) ELSE GroupWatts(m)

CleanMatches(text) ==
    {i \in DOMAIN text :
        IsWattageMatch(text, i) /\ ~text[i].noise /\ Truthy(MatchWatts(text[i]))}

CandidatesFrom(base) ==
    {k \in DOMAIN extracted.wattage_before :
        extracted.wattage_before[k].source.base = base}

NoiseIsLocal(text, base) ==
    /\ \A i \in CleanMatches(text) :
            \E k \in CandidatesFrom(base) :
                extracted.wattage_before[k].value = MatchWatts(text[i])
    /\ \A k \in CandidatesFrom(base) :
            \E i \in CleanMatches(text) :
                extracted.wattage_before[k].value = MatchWatts(text[i])

C24_NoiseIsLocal ==
    (pc = "return" /\ reaches_extraction(api_response)) =>
        /\ NoiseIsLocal(api_response.title.watt, "title")
        /\ NoiseIsLocal(api_response.description.watt, "description")
        /\ Len(api_response.feature_bullets) = 1 =>
                NoiseIsLocal(api_response.feature_bullets[1].watt, "feature_bullets")


(***************************************************************************)
(* C25: in every returned record and for each of the five fields,          *)
(* extraction_evidence[field] exists and holds at most the three           *)
(* highest-ranked candidates, and it has a 'selected' entry if and only if *)
(* the record's value for the field is non-null, in which case             *)
(* selected.value is the record's value.                                   *)
(***************************************************************************)
EvidenceFields == {"wattage", "dimensions", "weight", "piece_count", "voltage"}

CandidatesOf(field) ==
    CASE field = "wattage" -> extracted.wattage_candidates
      [] field = "dimensions" -> extracted.dimensions_candidates
      [] field = "weight" -> extracted.weight_candidates
      [] field = "piece_count" -> extracted.piece_count_candidates
      [] field = "voltage" -> extracted.voltage_candidates

\* the record's value for a field; the two dimension columns as a pair
RecordValue(field) ==
    CASE field = "wattage" -> panel_data.wattage
      [] field = "dimensions" -> <<panel_data.length_cm, panel_data.width_cm>>
      [] field = "weight" -> panel_data.weight_kg
      [] field = "piece_count" -> panel_data.piece_count
      [] field = "voltage" -> panel_data.voltage

RecordValueNull(field) ==
    IF field = "dimensions"
    THEN panel_data.length_cm = None /\ panel_data.width_cm = None
    ELSE RecordValue(field) = None

TopThree(field) ==
    LET all == CandidatesOf(field)
        kept == panel_data.extraction_evidence[field].candidates
        Kept == {kept[i] : i \in DOMAIN kept}
    IN  /\ Len(kept) = Min2(3, Len(all))
        /\ \A i \in DOMAIN kept : \E j \in DOMAIN all : all[j] = kept[i]
        /\ \A j \in DOMAIN all :
              all[j] \notin Kept => \A i \in DOMAIN kept : ~SortsBefore(all[j], kept[i])

SelectedIffValue(field) ==
    LET selected == panel_data.extraction_evidence[field].selected
    IN  /\ selected # << >> <=> ~RecordValueNull(field)
        /\ selected # << >> => selected[1].value = RecordValue(field)

C25_EvidenceShape ==
    (pc = "return" /\ panel_data # NoRecord) =>
        /\ EvidenceFields \subseteq DOMAIN panel_data.extraction_evidence
        /\ \A field \in EvidenceFields : TopThree(field) /\ SelectedIffValue(field)


(***************************************************************************)
(* C28: when a raw_scraper_data row younger than 24 hours exists for an    *)
(* ASIN and its stored scraper response parses, ingest_single_asin makes   *)
(* no ScraperAPI call, parses the stored response, inserts the panel and   *)
(* marks the ASIN completed.                                               *)
(***************************************************************************)
IngestedFromStored(p) ==
    /\ ingest[p].pc = "fetch"
    /\ ingest[p].recent_raw_data
    /\ ingest'[p] # ingest[p]
    /\ raw_scraper_data[ingest[p].pending_asins[ingest[p].i]] \in {"filtered", "parsed"}

StoredDataUsed(p) ==
    LET asin == ingest[p].pending_asins[ingest[p].i]
    IN  /\ api_calls'[p] = api_calls[p]
        /\ asin \in panel_asins'
        /\ asin_staging'[asin].status = "completed"

C28_StoredDataIngested ==
    [][\A p \in PROCESSES : IngestedFromStored(p) => StoredDataUsed(p)]_vars


(***************************************************************************)
(* C29: run_reparse never replaces a stored value by null: a target field  *)
(* whose newly parsed value is null is absent from the update map, so a    *)
(* stored non-null value survives; and the stored missing_fields list      *)
(* after a reparse is a sub-list of the one before, losing a key only      *)
(* when the corresponding field is updated in the same update.             *)
(***************************************************************************)
RECURSIVE IsSubList(_, _)
IsSubList(short, long) ==
    IF short = << >> THEN TRUE
    ELSE IF long = << >> THEN FALSE
    ELSE IF Head(short) = Head(long) THEN IsSubList(Tail(short), Tail(long))
    ELSE IsSubList(short, Tail(long))

KeysOf(list) == {list[i] : i \in DOMAIN list}

NullNeverWritten(before, after) ==
    \A f \in TargetFields :
        /\ panel_data'[f] = None =>
                (f \notin DOMAIN update_data'.fields /\ after[f] = before[f])
        /\ f \in DOMAIN update_data'.fields => update_data'.fields[f] # None
        /\ before[f] # None => after[f] # None

MissingFieldsShrink(before, after) ==
    /\ IsSubList(after.missing_fields, before.missing_fields)
    /\ update_data'.missing_fields.present =>
            IsSubList(update_data'.missing_fields.value, before.missing_fields)
    /\ \A key \in KeysOf(before.missing_fields) \ KeysOf(after.missing_fields) :
            \E f \in DOMAIN update_data'.fields : MissingKeyOf(f) = key

C29_NullNeverWritten ==
    [][RowReparsed =>
        LET id == rows[row_index].panel_id
        IN  /\ NullNeverWritten(solar_panels[id], solar_panels'[id])
            /\ MissingFieldsShrink(solar_panels[id], solar_panels'[id])]_vars

\* an update was written that changes the wattage and drops its key from
\* missing_fields while the raw response gives no voltage for a panel that has one
C29_Witness ==
    /\ outcome = "applied"
    /\ row_index > 1
    /\ rows[row_index - 1].panel_id = 1
    /\ "wattage" \in DOMAIN update_data.fields
    /\ update_data.missing_fields.present
    /\ panel_data.voltage = None
    /\ solar_panels[1].voltage # None
    /\ "voltage" \notin DOMAIN update_data.fields


(***************************************************************************)
(* C30: run_reparse updates the dimensions as a pair: in every staged      *)
(* update map length_cm is present if and only if width_cm is present,     *)
(* both taken from the same parsed record, and neither is present when     *)
(* length_cm or width_cm is protected or when either newly parsed          *)
(* component is null.                                                      *)
(***************************************************************************)
DimensionsAsPair(panel) ==
    LET fields == DOMAIN update_data'.fields
    IN  /\ "length_cm" \in fields <=> "width_cm" \in fields
        /\ "length_cm" \in fields =>
                /\ update_data'.fields.length_cm = panel_data'.length_cm
                /\ update_data'.fields.width_cm = panel_data'.width_cm
        /\ (\/ {"length_cm", "width_cm"} \cap Overridden(panel) # {}
            \/ panel_data'.length_cm = None
            \/ panel_data'.width_cm = None)
                => {"length_cm", "width_cm"} \cap fields = {}

C30_DimensionsAsPair ==
    [][RowReparsed => DimensionsAsPair(solar_panels[rows[row_index].panel_id])]_vars

\* an update is staged for a panel whose width is protected and whose
\* unprotected length differs from the parsed one: it carries neither
C30_Witness ==
    /\ outcome \in {"planned", "applied"}
    /\ row_index > 1
    /\ rows[row_index - 1].panel_id = 1
    /\ "width_cm" \in Overridden(solar_panels[1])
    /\ "length_cm" \notin Overridden(solar_panels[1])
    /\ panel_data.length_cm # None
    /\ Abs(panel_data.length_cm - solar_panels[1].length_cm) > TOLERANCE
    /\ DOMAIN update_data.fields # {}
    /\ "length_cm" \notin DOMAIN update_data.fields

====
